---- MODULE Spec2Model ----
(***************************************************************************)
(* Model of the auto-close-tabs plugin: the TabManager (activity tracking  *)
(* and the inactivity sweep) and the HistoryManager (bounded history of    *)
(* closed tabs, persisted plugin data, optional mirror file).              *)
(*                                                                         *)
(* Every `await` of the source is a point where other callbacks (host      *)
(* events, the settings UI, the interval timer, commands) may run, so an   *)
(* async function is one action per synchronous stretch.                   *)
(***************************************************************************)
EXTENDS Integers, Sequences, FiniteSets, TLC

----------------------------------------------------------------------------
(* Bounds of the model *)

NumRootLeaves == 2
NumSideLeaves == 1
MaxTicks == 2
MaxTimeoutMinutes == 2
MaxCapacity == 2
MaxSweeps == 2
MaxSoloSweeps == 1
MaxAppends == 3
MaxStoredEntries == 2
MaxPendingSaves == 1
MaxTextLen == 2
MaxHandlers == 3
StartTime == 1000

(* Program constants *)

MsPerSecond == 1000
SecondsPerMinute == 60
NoLeaf == 0
NoRecord == -1

HoursPerDay == 24
MsPerMinute == SecondsPerMinute * MsPerSecond

RootLeaves == 1..NumRootLeaves
SideLeaves == (NumRootLeaves + 1)..(NumRootLeaves + NumSideLeaves)
Leaves == RootLeaves \cup SideLeaves
Slots == 1..MaxSweeps
SoloSlots == 1..MaxSoloSweeps

\* The clock advances by a minute, or by a minute and a second.
TickSteps == {MsPerMinute, MsPerMinute + MsPerSecond}

VARIABLES
    \* host workspace
    open,       \* leaves currently in the workspace
    gone,       \* leaves that were detached (a leaf is never reattached)
    pinned,     \* open leaves whose view state has pinned = true
    focus,      \* workspace.getMostRecentLeaf(), or NoLeaf
    lastUse,    \* for each open main-area leaf that has lost the focus
                \* while the plugin was started and not regained it: the
                \* instant it lost it, the leaf having been in use until then
    failing,    \* for each leaf, the host query that throws when it is made
                \* of that leaf: "getRoot", "getViewState", or "none"
    now,        \* Date.now()
    \* plugin
    settings,   \* plugin.settings (with the closedTabsHistory it was loaded with)
    started,    \* tabManager.start() has run, and onunload has not since
    handlers,   \* live "active-leaf-change" handlers (and as many "file-open"
                \* handlers), counted up to MaxHandlers
    saves,      \* settings-UI handlers awaiting saveSettings()
    \* TabManager
    activity,   \* leafActivityMap
    timer,      \* the live interval and the timeout it captured, or no timer
    sweeps,     \* invocations of checkAndCloseInactiveTabsWithResult
    \* HistoryManager
    hmBuild,    \* which of the two HistoryManager sources is built
    history,    \* this.history
    calls,      \* addEntry / saveHistory invocations in flight
    \* storage
    disk,       \* closedTabsHistory of the persisted plugin data
    diskSettings, \* the settings keys of the persisted plugin data, where the
                \* specification follows them
    mirror,     \* what is at the log file path
    folder,     \* the log file's parent folder exists
    \* observation
    appended,   \* entries pushed since the history was last emptied
    capStable,  \* maxHistoryEntries unchanged since the history was last empty
    nAppends,   \* addEntry calls made directly on the HistoryManager
    ev          \* the last step taken, with what it returned

hostVars == <<open, gone, pinned, focus, lastUse, failing, now>>
pluginVars == <<settings, started, handlers, saves>>
tabVars == <<activity, timer, sweeps>>
histVars == <<hmBuild, history, calls>>
storeVars == <<disk, diskSettings, mirror, folder>>
obsVars == <<appended, capStable, nAppends, ev>>
vars == <<hostVars, pluginVars, tabVars, histVars, storeVars, obsVars>>

----------------------------------------------------------------------------
(* Helpers *)

\* What manualCheck shows the user when its sweep has returned: one Notice
\* built from the list the sweep returned ("No inactive tabs to close." when it
\* is empty, else its length and its names).  Nothing else shows a Notice.
NoNotice == [shown |-> FALSE, closed |-> <<>>]
manualNotice(closedTabs) == [shown |-> TRUE, closed |-> closedTabs]

EventS(op, arg, note, ret, notice) ==
    [op |-> op, arg |-> arg, note |-> note, ret |-> ret, notice |-> notice]
EventR(op, arg, note, ret) == EventS(op, arg, note, ret, NoNotice)
EventN(op, arg, note) == EventR(op, arg, note, <<>>)
Event(op, arg) == EventN(op, arg, "none")

Range(s) == {s[i] : i \in 1..Len(s)}

Reverse(s) == [i \in 1..Len(s) |-> s[Len(s) + 1 - i]]

\* Array.prototype.slice(-n) for n > 0
SliceLast(s, n) == IF Len(s) <= n THEN s ELSE SubSeq(s, Len(s) - n + 1, Len(s))

\* The members of a set of leaves in ascending order.
RECURSIVE Ordered(_)
Ordered(S) ==
    IF S = {} THEN <<>>
    ELSE LET m == CHOOSE x \in S : \A y \in S : x <= y
         IN <<m>> \o Ordered(S \ {m})

----------------------------------------------------------------------------
(* Data *)

\* ClosedTabEntry; inactiveTime is inactiveTimeMinutes in milliseconds.
ClosedTabEntry(name, inactiveTime, t) ==
    [timestamp |-> t, fileName |-> name, inactiveTime |-> inactiveTime]

NoEntry == ClosedTabEntry(0, 0, 0)

\* The persisted closedTabsHistory: absent from the data file, or an array.
NoData == [present |-> FALSE, h |-> <<>>]
Stored(h) == [present |-> TRUE, h |-> h]

\* The keys of AutoCloseTabsSettings that the model carries, and the part of
\* an object (plugin.settings, or the data loadData gives, over the defaults)
\* that they make.
SettingFields ==
    {"enabled", "inactiveTimeoutMinutes", "checkIntervalSeconds", "logHistory",
     "logToFile", "maxHistoryEntries"}
Fields(s) == [f \in SettingFields |-> s[f]]

\* The settings keys of the data file are followed only by a specification
\* that starts with them; elsewhere they stay NoFields.
NoFields == <<>>

\* No host query fails.
NoneFailing == [l \in Leaves |-> "none"]

\* The per-leaf host queries the plugin makes
Queries == {"getRoot", "getViewState"}

NoTimer == [live |-> FALSE, timeoutMs |-> 0, stale |-> FALSE]

\* The interval this.checkInterval refers to, with the timeout its callback
\* captured; stale: an earlier interval is still running that was never cleared.
Interval(timeoutMs) == [live |-> TRUE, timeoutMs |-> timeoutMs, stale |-> FALSE]

\* An element of leavesToClose
Item(l, inactiveTime) == [leaf |-> l, inactiveTime |-> inactiveTime]
NoItem == Item(NoLeaf, 0)

\* An invocation of checkAndCloseInactiveTabsWithResult at an await of its
\* loop: the item being closed, the rest of leavesToClose, closedTabs so far.
IdleSweep ==
    [pc |-> "idle", kind |-> "none", queue |-> <<>>, cur |-> NoItem,
     closedTabs |-> <<>>]

\* What a sweep saw when it classified: the instant, the timeout it used, the
\* most recent leaf, the leaves enumerated, the pinned flags and the activity
\* map before seeding, and the leavesToClose it built.
NoCensus ==
    [kind |-> "none", at |-> 0, timeoutMs |-> 0, focusAt |-> NoLeaf,
     enumerated |-> <<>>, pinnedAt |-> {}, activityAt |-> <<>>,
     leavesToClose |-> <<>>]

IdleCall ==
    [pc |-> "idle", kind |-> "none", entry |-> NoEntry, payload |-> <<>>,
     existing |-> NoFields, logged |-> FALSE]

\* One line of the mirror file: the header block, or an entry's line with the
\* inactive time rendered by toFixed(1) (tenths of a minute, rounded).
HeaderLine == [header |-> TRUE, fileName |-> 0, tenths |-> 0, timestamp |-> 0]
LogLine(e) ==
    [header |-> FALSE, fileName |-> e.fileName,
     tenths |-> (e.inactiveTime * 10 + MsPerMinute \div 2) \div MsPerMinute,
     timestamp |-> e.timestamp]

NoFile == [kind |-> "absent", lines |-> <<>>]
FileWith(lines) == [kind |-> "file", lines |-> lines]
NotAFile == [kind |-> "folder", lines |-> <<>>]

----------------------------------------------------------------------------
(* Scope filter and activity tracker *)

\* A variant that takes every leaf for a leaf of the main area.
isAnyLeaf(l) == l \in Leaves

\* The host query q throws when made of leaf l.
Throws(l, q) == l # NoLeaf /\ failing[l] = q

\* TabManager.isRootLeaf: leaf.getRoot() === workspace.rootSplit, or false
\* when the query throws
isRootLeaf(l) == l \in RootLeaves /\ failing[l] # "getRoot"

\* TabManager.getActiveRootLeaf
getActiveRootLeaf == IF focus # NoLeaf /\ isRootLeaf(focus) THEN focus ELSE NoLeaf

\* A variant that enumerates the side panels too.
iterateAllLeaves == Ordered(open)

\* workspace.iterateRootLeaves: the open leaves of the main area, in order
iterateRootLeaves == Ordered(open \cap RootLeaves)

\* `!lastActivity`: no record, or a recorded instant of 0
Falsy(v) == v = NoRecord \/ v = 0

\* A variant that seeds nothing.
initializeNothing == activity

\* A variant that stamps every open main-area leaf, tracked or not.
initializeEveryLeaf ==
    [l \in Leaves |-> IF l \in Range(iterateRootLeaves) THEN now ELSE activity[l]]

\* TabManager.initializeLeafTracking
initializeLeafTracking ==
    [l \in Leaves |->
        IF l \in Range(iterateRootLeaves) /\ activity[l] = NoRecord
        THEN now ELSE activity[l]]

\* TabManager.registerActiveLeafChangeListener: start() registers one more
\* handler for each of the two events; stop() releases none, the host
\* releases them all when the plugin is unloaded.
registerActiveLeafChangeListener ==
    IF handlers < MaxHandlers THEN handlers + 1 ELSE handlers

\* TabManager.startPeriodicCheck: the interval captures the timeout
startPeriodicCheck(t) ==
    IF settings.enabled
    THEN [Interval(settings.inactiveTimeoutMinutes * MsPerMinute)
             EXCEPT !.stale = t.stale \/ t.live]
    ELSE t

\* TabManager.stop: clears the interval this.checkInterval refers to
stop(t) == [NoTimer EXCEPT !.stale = t.stale]

\* A variant of updateSettings that starts without stopping first.
updateSettingsNoStop(t) == startPeriodicCheck(t)

\* TabManager.updateSettings: stop(), then start()
updateSettings(t) == startPeriodicCheck(stop(t))

----------------------------------------------------------------------------
(* Host workspace: the user opens, focuses, pins and closes leaves; time passes *)

OpenLeaf(l) ==
    /\ l \notin open /\ l \notin gone
    /\ open' = open \cup {l}
    /\ ev' = Event("host", 0)
    /\ UNCHANGED <<gone, pinned, focus, lastUse, failing, now, pluginVars, tabVars, histVars,
                   storeVars, appended, capStable, nAppends>>

\* The user focuses another leaf; the "active-leaf-change" handler runs if
\* start() has registered it.
FocusLeaf(l) ==
    /\ l \in open /\ l # focus
    /\ focus' = l
    /\ lastUse' = [k \in Leaves |->
                      IF k = l THEN NoRecord
                      ELSE IF started /\ k = focus /\ k \in RootLeaves THEN now
                      ELSE lastUse[k]]
    /\ failing' = failing
    /\ activity' = IF started /\ isRootLeaf(l) /\ ~Throws(l, "getViewState")
                   THEN [activity EXCEPT ![l] = now] ELSE activity
    /\ ev' = Event("host", 0)
    /\ UNCHANGED <<open, gone, pinned, now, pluginVars, timer, sweeps, histVars,
                   storeVars, appended, capStable, nAppends>>

\* A file is opened in the focused leaf; the "file-open" handler runs.
FileOpen ==
    /\ started /\ focus # NoLeaf
    /\ getActiveRootLeaf # NoLeaf
    /\ ~Throws(focus, "getViewState")
    /\ activity[focus] # now
    /\ activity' = [activity EXCEPT ![getActiveRootLeaf] = now]
    /\ ev' = Event("host", 0)
    /\ UNCHANGED <<hostVars, pluginVars, timer, sweeps, histVars, storeVars,
                   appended, capStable, nAppends>>

TogglePin(l) ==
    /\ l \in open
    /\ pinned' = IF l \in pinned THEN pinned \ {l} ELSE pinned \cup {l}
    /\ ev' = Event("host", 0)
    /\ UNCHANGED <<open, gone, focus, lastUse, failing, now, pluginVars, tabVars, histVars,
                   storeVars, appended, capStable, nAppends>>

\* What the host does to its own state when a set of leaves is detached.
DetachedOpen(op, D) == op \ D
DetachedPinned(pn, D) == pn \ D
DetachedFocus(fc, D) == IF fc \in D THEN NoLeaf ELSE fc
DetachedLastUse(lu, D) == [k \in Leaves |-> IF k \in D THEN NoRecord ELSE lu[k]]

CloseLeaf(l) ==
    /\ l \in open
    /\ open' = DetachedOpen(open, {l})
    /\ gone' = gone \cup {l}
    /\ pinned' = DetachedPinned(pinned, {l})
    /\ focus' = DetachedFocus(focus, {l})
    /\ lastUse' = DetachedLastUse(lastUse, {l})
    /\ failing' = failing
    /\ ev' = Event("host", 0)
    /\ UNCHANGED <<now, pluginVars, tabVars, histVars, storeVars, appended,
                   capStable, nAppends>>

Tick(d) ==
    /\ now + d - StartTime <= MaxTicks * (MsPerMinute + MsPerSecond)
    /\ now' = now + d
    /\ ev' = Event("host", 0)
    /\ UNCHANGED <<open, gone, pinned, focus, lastUse, failing, pluginVars, tabVars, histVars,
                   storeVars, appended, capStable, nAppends>>

----------------------------------------------------------------------------
(* HistoryManager: the synchronous parts *)

\* A variant that logs whatever the setting says.
logsAlways == TRUE

\* addEntry and saveHistory return at once unless settings.logHistory
logsHistory == settings.logHistory

\* A variant that never trims.
keepAll(h) == h

\* the trim of addEntry and of saveHistory
trim(h) ==
    IF Len(h) > settings.maxHistoryEntries
    THEN SliceLast(h, settings.maxHistoryEntries) ELSE h

\* addEntry up to its first await: push, trim, saveHistory's own trim
pushAndTrim(h, e) == trim(trim(Append(h, e)))

\* A variant that returns the entries in storage order.
getHistoryOldestFirst == history

\* getHistory
getHistory == Reverse(history)

\* clearHistory
clearHistory == <<>>

\* toLocaleDateString and toLocaleTimeString of a timestamp: the calendar day
\* and the time of day to the second (local time taken as UTC).
MsPerDay == HoursPerDay * SecondsPerMinute * MsPerMinute
toLocaleDateString(t) == t \div MsPerDay
toLocaleTimeString(t) == (t % MsPerDay) \div MsPerSecond

\* One line of the exported text.
ExportLine(e) ==
    [time |-> toLocaleTimeString(e.timestamp), fileName |-> e.fileName,
     tenths |-> (e.inactiveTime * 10 + MsPerMinute \div 2) \div MsPerMinute]

NoHistoryText == [total |-> 0, groups |-> <<>>]

\* The text exportHistory builds from the entries in the order it iterates
\* them: "Total entries", then one "## date" block per calendar day, the days
\* sorted most recent first, each with its entries in iteration order.
exportText(iterated) ==
    LET days == {toLocaleDateString(iterated[i].timestamp) : i \in 1..Len(iterated)}
        dates == Reverse(Ordered(days))
        grouped(d) == SelectSeq(iterated, LAMBDA e : toLocaleDateString(e.timestamp) = d)
    IN IF iterated = <<>> THEN NoHistoryText
       ELSE [total |-> Len(iterated),
             groups |-> [k \in 1..Len(dates) |->
                           [date |-> dates[k],
                            lines |-> [i \in 1..Len(grouped(dates[k])) |->
                                         ExportLine(grouped(dates[k])[i])]]]]

\* A variant that iterates the array as stored.
exportHistoryForward == exportText(history)

\* exportHistory iterates the reversed array.
exportHistory == exportText(Reverse(history))

\* What exportHistory leaves in this.history: the older source reverses the
\* array in place, the newer one reverses a copy.
exportHistoryStored ==
    IF hmBuild = "legacy" THEN Reverse(history) ELSE history

\* writeToFile's first look at the path: the newer source takes only a TFile,
\* the older one whatever is there.
FoundAtPath ==
    IF hmBuild = "legacy" THEN mirror.kind # "absent" ELSE mirror.kind = "file"

AddEntryCall(e) ==
    [pc |-> "load", kind |-> "addEntry", entry |-> e, payload |-> <<>>,
     existing |-> NoFields, logged |-> FALSE]

SaveHistoryCall ==
    [pc |-> "load", kind |-> "save", entry |-> NoEntry, payload |-> <<>>,
     existing |-> NoFields, logged |-> FALSE]

----------------------------------------------------------------------------
(* The sweep's loop over leavesToClose *)

ClosedTab(item) ==
    [fileName |-> item.leaf, inactiveMinutes |-> item.inactiveTime \div MsPerMinute]

ItemLeaves(q) == {q[i].leaf : i \in 1..Len(q)}

ClosedTabsOf(q) == [i \in 1..Len(q) |-> ClosedTab(q[i])]

Detach(D) ==
    /\ open' = DetachedOpen(open, D)
    /\ gone' = gone \cup D
    /\ pinned' = DetachedPinned(pinned, D)
    /\ focus' = DetachedFocus(focus, D)
    /\ lastUse' = DetachedLastUse(lastUse, D)
    /\ failing' = failing

\* The sweep of kind "manual" returns to manualCheck, which shows its Notice;
\* the interval's callback shows nothing.
Surfaced(kind, closedTabs) ==
    IF kind = "manual" THEN manualNotice(closedTabs) ELSE NoNotice

\* A variant of the loop that detaches the head of the queue before, not
\* after, its addEntry.
ProceedDetachFirst(s, sw, D, op, cen) ==
    IF sw.queue = <<>>
    THEN /\ sweeps' = [sweeps EXCEPT ![s] = IdleSweep]
         /\ calls' = [calls EXCEPT ![s] = IdleCall]
         /\ open' = DetachedOpen(open, D)
         /\ gone' = gone \cup D
         /\ pinned' = DetachedPinned(pinned, D)
         /\ focus' = DetachedFocus(focus, D)
         /\ lastUse' = DetachedLastUse(lastUse, D)
         /\ failing' = failing
         /\ ev' = EventS(op, s, "done", [census |-> cen, closed |-> D,
                                         closedTabs |-> sw.closedTabs],
                         Surfaced(sw.kind, sw.closedTabs))
         /\ UNCHANGED history
    ELSE LET item == Head(sw.queue)
             e == ClosedTabEntry(item.leaf, item.inactiveTime, now)
             sw2 == [sw EXCEPT !.pc = "awaitAdd", !.cur = item, !.queue = Tail(@)]
             D2 == D \cup {item.leaf}
         IN /\ history' = pushAndTrim(history, e)
            /\ calls' = [calls EXCEPT ![s] = AddEntryCall(e)]
            /\ sweeps' = [sweeps EXCEPT ![s] = sw2]
            /\ open' = DetachedOpen(open, D2)
            /\ gone' = gone \cup D2
            /\ pinned' = DetachedPinned(pinned, D2)
            /\ focus' = DetachedFocus(focus, D2)
            /\ lastUse' = DetachedLastUse(lastUse, D2)
            /\ failing' = failing
            /\ ev' = EventR(op, s, "await", [census |-> cen, closed |-> D2,
                                            closedTabs |-> sw.closedTabs])

\* What a step of a sweep reports: the census (of the classifying step), the
\* leaves it detached, and closedTabs (the result, once the loop has ended).
Report(cen, D, closedTabs) ==
    [census |-> cen, closed |-> D, closedTabs |-> closedTabs]

\* The loop from the head of sw.queue to its next await, after the leaves D
\* of the iteration that just ended are detached.  addEntry for the head: a
\* disabled log makes it a no-op and the loop runs on; otherwise it pushes,
\* trims and awaits loadData.
Proceed(s, sw, D, op, cen) ==
    IF sw.queue = <<>>
    THEN /\ sweeps' = [sweeps EXCEPT ![s] = IdleSweep]
         /\ calls' = [calls EXCEPT ![s] = IdleCall]
         /\ Detach(D)
         /\ ev' = EventS(op, s, "done", Report(cen, D, sw.closedTabs),
                         Surfaced(sw.kind, sw.closedTabs))
         /\ UNCHANGED history
    ELSE IF ~logsHistory
    THEN /\ sweeps' = [sweeps EXCEPT ![s] = IdleSweep]
         /\ calls' = [calls EXCEPT ![s] = IdleCall]
         /\ Detach(D \cup ItemLeaves(sw.queue))
         /\ ev' = EventS(op, s, "dropped",
                    Report(cen, D \cup ItemLeaves(sw.queue),
                           sw.closedTabs \o ClosedTabsOf(sw.queue)),
                    Surfaced(sw.kind, sw.closedTabs \o ClosedTabsOf(sw.queue)))
         /\ UNCHANGED history
    ELSE LET item == Head(sw.queue)
             e == ClosedTabEntry(item.leaf, item.inactiveTime, now)
             sw2 == [sw EXCEPT !.pc = "awaitAdd", !.cur = item, !.queue = Tail(@)]
         IN /\ history' = pushAndTrim(history, e)
            /\ calls' = [calls EXCEPT ![s] = AddEntryCall(e)]
            /\ sweeps' = [sweeps EXCEPT ![s] = sw2]
            /\ Detach(D)
            /\ ev' = EventR(op, s, "await", Report(cen, D, sw.closedTabs))

\* addEntry (or saveHistory) of slot c returns normally.  A sweep awaiting it
\* pushes to closedTabs, detaches the leaf and goes on with its loop.
Return(c, note) ==
    IF c \in Slots /\ sweeps[c].pc = "awaitAdd"
    THEN Proceed(c, [sweeps[c] EXCEPT !.closedTabs = Append(@, ClosedTab(sweeps[c].cur))],
                 {sweeps[c].cur.leaf}, "resume", NoCensus)
    ELSE /\ calls' = [calls EXCEPT ![c] = IdleCall]
         /\ ev' = EventN(IF calls[c].kind = "save" THEN "saveReturn" ELSE "return",
                         calls[c].entry.fileName, note)
         /\ UNCHANGED <<open, gone, pinned, focus, lastUse, failing, sweeps, history>>

\* addEntry of slot c throws: the awaiting sweep ends there, its leaf not
\* detached and the rest of its queue dropped.
Throw(c) ==
    /\ calls' = [calls EXCEPT ![c] = IdleCall]
    /\ sweeps' = [s \in Slots |-> IF s = c THEN IdleSweep ELSE sweeps[s]]
    /\ ev' = EventN(IF c \in Slots /\ sweeps[c].pc = "awaitAdd"
                    THEN "sweepThrow" ELSE "throw", c, "none")
    /\ UNCHANGED <<open, gone, pinned, focus, lastUse, failing, history>>

----------------------------------------------------------------------------
(* HistoryManager: the awaited parts of saveHistory and writeToFile *)

CallFrame ==
    UNCHANGED <<now, pluginVars, activity, timer, hmBuild, appended,
                capStable, nAppends>>

\* The call stays in flight, at its next await.
Stay(c, pc, logged) ==
    /\ calls' = [calls EXCEPT ![c] = [@ EXCEPT !.pc = pc, !.logged = logged]]
    /\ ev' = Event("io", 0)
    /\ UNCHANGED <<open, gone, pinned, focus, lastUse, failing, sweeps, history>>

\* What a normal return reports of the mirror step.
Note(c, wrote) ==
    IF calls[c].logged THEN "logged"
    ELSE IF ~wrote THEN "silent"
    ELSE IF calls[c].pc = "fallback" THEN "recovered"
    ELSE "written"

\* saveHistory: loadData resolves, saveData is called with the history of now
LoadDataDone(c) ==
    /\ calls[c].pc = "load"
    /\ calls' = [calls EXCEPT ![c] = [@ EXCEPT !.pc = "save", !.payload = history,
                                           !.existing = diskSettings]]
    /\ ev' = Event("io", 0)
    /\ UNCHANGED <<open, gone, pinned, focus, lastUse, failing, sweeps, history, storeVars>>
    /\ CallFrame

\* writeToFile up to its first await
writeToFileStart(c) ==
    IF FoundAtPath THEN Stay(c, "append", FALSE)
    ELSE IF ~folder THEN Stay(c, "mkfolder", FALSE)
    ELSE Stay(c, "create", FALSE)

\* saveHistory: saveData resolves; addEntry goes on to the mirror file
SaveDataDone(c) ==
    /\ calls[c].pc = "save"
    /\ disk' = Stored(calls[c].payload)
    /\ diskSettings' = calls[c].existing
    /\ IF calls[c].kind = "addEntry" /\ settings.logToFile
       THEN writeToFileStart(c)
       ELSE Return(c, "nomirror")
    /\ UNCHANGED <<mirror, folder>>
    /\ CallFrame

\* loadData or saveData rejects: saveHistory, addEntry and the sweep throw
PersistFail(c) ==
    /\ calls[c].pc \in {"load", "save"}
    /\ Throw(c)
    /\ UNCHANGED storeVars
    /\ CallFrame

\* A variant that writes the file anew, header and line, instead of appending.
AppendDoneRewrites(c) ==
    /\ calls[c].pc \in {"append", "fallback"}
    /\ IF mirror.kind = "file"
       THEN /\ mirror' = FileWith(<<HeaderLine, LogLine(calls[c].entry)>>)
            /\ Return(c, Note(c, TRUE))
       ELSE /\ mirror' = mirror
            /\ Return(c, "logged")
    /\ UNCHANGED <<disk, diskSettings, folder>>
    /\ CallFrame

\* vault.append resolves, or rejects because no file is there any more
AppendDone(c) ==
    /\ calls[c].pc \in {"append", "fallback"}
    /\ IF mirror.kind = "file"
       THEN /\ mirror' = FileWith(Append(mirror.lines, LogLine(calls[c].entry)))
            /\ Return(c, Note(c, TRUE))
       ELSE /\ mirror' = mirror
            /\ Return(c, "logged")
    /\ UNCHANGED <<disk, diskSettings, folder>>
    /\ CallFrame

\* vault.append rejects: caught and logged by writeToFile
AppendFail(c) ==
    /\ calls[c].pc \in {"append", "fallback"}
    /\ Return(c, "logged")
    /\ UNCHANGED storeVars
    /\ CallFrame

\* vault.createFolder resolves, or rejects with "already exists" (swallowed)
MkFolderDone(c) ==
    /\ calls[c].pc = "mkfolder"
    /\ folder' = TRUE
    /\ Stay(c, "create", calls[c].logged)
    /\ UNCHANGED <<disk, diskSettings, mirror>>
    /\ CallFrame

\* vault.createFolder rejects otherwise: logged, writeToFile goes on
MkFolderFail(c) ==
    /\ calls[c].pc = "mkfolder"
    /\ Stay(c, "create", TRUE)
    /\ UNCHANGED storeVars
    /\ CallFrame

\* A variant in which a creator that finds the file already there gives up.
CreateDoneNoFallback(c) ==
    /\ calls[c].pc = "create"
    /\ IF mirror.kind = "absent" /\ folder
       THEN /\ mirror' = FileWith(<<HeaderLine, LogLine(calls[c].entry)>>)
            /\ Return(c, Note(c, TRUE))
       ELSE /\ mirror' = mirror
            /\ Return(c, Note(c, FALSE))
    /\ UNCHANGED <<disk, diskSettings, folder>>
    /\ CallFrame

\* vault.create resolves or rejects, by what is at the path
CreateDone(c) ==
    /\ calls[c].pc = "create"
    /\ IF mirror.kind = "absent" /\ folder
       THEN /\ mirror' = FileWith(<<HeaderLine, LogLine(calls[c].entry)>>)
            /\ Return(c, Note(c, TRUE))
       ELSE /\ mirror' = mirror
            /\ IF mirror.kind = "absent" THEN Return(c, "logged")
               ELSE IF mirror.kind = "file" \/ hmBuild = "legacy"
               THEN Stay(c, "fallback", calls[c].logged)
               ELSE Return(c, Note(c, FALSE))
    /\ UNCHANGED <<disk, diskSettings, folder>>
    /\ CallFrame

\* A variant in which writeToFile lets the rejection of vault.create out.
CreateFailEscapes(c) ==
    /\ calls[c].pc = "create"
    /\ Throw(c)
    /\ UNCHANGED storeVars
    /\ CallFrame

\* vault.create rejects for another reason: rethrown, caught and logged
CreateFail(c) ==
    /\ calls[c].pc = "create"
    /\ Return(c, "logged")
    /\ UNCHANGED storeVars
    /\ CallFrame

\* saveData resolves, addEntry returns to the sweep awaiting it, the sweep
\* pushes to closedTabs, and leaf.detach() raises: nothing catches it inside
\* the loop, so the sweep ends there with the rest of leavesToClose unvisited.
DetachFail(c) ==
    /\ c \in Slots
    /\ sweeps[c].pc = "awaitAdd"
    /\ calls[c].pc = "save"
    /\ ~settings.logToFile
    /\ disk' = Stored(calls[c].payload)
    /\ diskSettings' = calls[c].existing
    /\ calls' = [calls EXCEPT ![c] = IdleCall]
    /\ sweeps' = [sweeps EXCEPT ![c] = IdleSweep]
    /\ ev' = EventR("detachThrow", c, "none",
                    Report(NoCensus, {},
                           Append(sweeps[c].closedTabs, ClosedTab(sweeps[c].cur))))
    /\ UNCHANGED <<open, gone, pinned, focus, lastUse, failing, history, mirror, folder>>
    /\ CallFrame

----------------------------------------------------------------------------
(* TabManager: the sweep *)

\* Variants of the classification: one that does not look at the pinned flag,
\* one that does not look at the active leaf, one that reads a missing record
\* as an instant, one with a strict threshold.
ClassifyIgnoringPin(l, al, t, timeoutMs) ==
    IF l = al THEN "focused"
    ELSE IF Falsy(activity[l]) THEN "untracked"
    ELSE IF t - activity[l] >= timeoutMs THEN "evictable"
    ELSE "active"

ClassifyIgnoringFocus(l, al, t, timeoutMs) ==
    IF l \in pinned THEN "pinned"
    ELSE IF Falsy(activity[l]) THEN "untracked"
    ELSE IF t - activity[l] >= timeoutMs THEN "evictable"
    ELSE "active"

ClassifyUnseeded(l, al, t, timeoutMs) ==
    IF l \in pinned THEN "pinned"
    ELSE IF l = al THEN "focused"
    ELSE IF t - activity[l] >= timeoutMs THEN "evictable"
    ELSE "active"

ClassifyStrict(l, al, t, timeoutMs) ==
    IF l \in pinned THEN "pinned"
    ELSE IF l = al THEN "focused"
    ELSE IF Falsy(activity[l]) THEN "untracked"
    ELSE IF t - activity[l] > timeoutMs THEN "evictable"
    ELSE "active"

\* A variant that looks for the activity record first, and so seeds a record
\* for a pinned or active leaf that has none.
ClassifyRecordFirst(l, al, t, timeoutMs) ==
    IF Falsy(activity[l]) THEN "untracked"
    ELSE IF l \in pinned THEN "pinned"
    ELSE IF l = al THEN "focused"
    ELSE IF t - activity[l] >= timeoutMs THEN "evictable"
    ELSE "active"

\* The callback of iterateRootLeaves in checkAndCloseInactiveTabsWithResult,
\* for leaf l with active leaf al at instant t.
Classify(l, al, t, timeoutMs) ==
    IF l \in pinned THEN "pinned"
    ELSE IF l = al THEN "focused"
    ELSE IF Falsy(activity[l]) THEN "untracked"
    ELSE IF t - activity[l] >= timeoutMs THEN "evictable"
    ELSE "active"

FreeSlot(s) ==
    /\ sweeps[s].pc = "idle"
    /\ calls[s].pc = "idle"
    /\ \A r \in Slots : r < s => ~(sweeps[r].pc = "idle" /\ calls[r].pc = "idle")

SweepFrame ==
    UNCHANGED <<now, pluginVars, timer, hmBuild, storeVars, appended,
                capStable, nAppends>>

\* A variant that does not look at settings.enabled.
checkAndCloseRegardless(s, kind, timeoutMs) ==
    LET al == getActiveRootLeaf
        en == iterateRootLeaves
        class(l) == Classify(l, al, now, timeoutMs)
        toClose == SelectSeq(en, LAMBDA l : class(l) = "evictable")
        items == [i \in 1..Len(toClose) |->
                     Item(toClose[i], now - activity[toClose[i]])]
        seeded == {l \in Range(en) : class(l) = "untracked"}
        sw == [pc |-> "run", kind |-> kind, queue |-> items, cur |-> NoItem,
               closedTabs |-> <<>>]
        cen == [kind |-> kind, at |-> now, timeoutMs |-> timeoutMs,
                focusAt |-> focus, enumerated |-> en, pinnedAt |-> pinned,
                activityAt |-> activity, leavesToClose |-> items]
    IN /\ activity' = [l \in Leaves |->
                         IF l \in seeded THEN now ELSE activity[l]]
       /\ Proceed(s, sw, {}, "sweep", cen)

\* checkAndCloseInactiveTabsWithResult up to its first await (or its end).
\* getViewState() is called of the active leaf before the enumeration and of
\* each enumerated leaf at the head of the callback, outside any try: where
\* it throws, the invocation ends there, the leaves visited before it seeded
\* and nothing closed.
checkAndCloseInactiveTabsWithResult(s, kind, timeoutMs) ==
    IF ~settings.enabled
    THEN /\ ev' = EventN("sweepDisabled", s, kind)
         /\ UNCHANGED <<open, gone, pinned, focus, lastUse, failing, activity, sweeps, history, calls>>
    ELSE LET al == getActiveRootLeaf
             en == iterateRootLeaves
             bad == {i \in 1..Len(en) : Throws(en[i], "getViewState")}
             reached == IF bad = {} THEN Len(en)
                        ELSE IF Throws(al, "getViewState") THEN 0
                        ELSE (CHOOSE i \in bad : \A j \in bad : i <= j) - 1
             visited == SubSeq(en, 1, reached)
             class(l) == Classify(l, al, now, timeoutMs)
             toClose == SelectSeq(visited, LAMBDA l : class(l) = "evictable")
             items == [i \in 1..Len(toClose) |->
                          Item(toClose[i], now - activity[toClose[i]])]
             seeded == {l \in Range(visited) : class(l) = "untracked"}
             sw == [pc |-> "run", kind |-> kind, queue |-> items, cur |-> NoItem,
                    closedTabs |-> <<>>]
             cen == [kind |-> kind, at |-> now, timeoutMs |-> timeoutMs,
                     focusAt |-> focus, enumerated |-> en, pinnedAt |-> pinned,
                     activityAt |-> activity, leavesToClose |-> items]
         IN /\ activity' = [l \in Leaves |->
                              IF l \in seeded THEN now ELSE activity[l]]
            /\ IF bad = {}
               THEN Proceed(s, sw, {}, "sweep", cen)
               ELSE /\ ev' = EventR("sweepAbort", s, kind, Report(cen, {}, <<>>))
                    /\ UNCHANGED <<open, gone, pinned, focus, lastUse, failing,
                                   sweeps, history, calls>>

\* The interval fires.
TimerFire(s) ==
    /\ timer.live
    /\ FreeSlot(s)
    /\ checkAndCloseInactiveTabsWithResult(s, "timer", timer.timeoutMs)
    /\ SweepFrame

\* The "Check for inactive tabs now" command.
manualCheck(s) ==
    /\ started
    /\ FreeSlot(s)
    /\ checkAndCloseInactiveTabsWithResult(s, "manual",
            settings.inactiveTimeoutMinutes * MsPerMinute)
    /\ SweepFrame

\* One row of the status list for leaf l; a leaf without a record counts as
\* active at this instant (`leafActivityMap.get(leaf) ?? now`).
StatusOf(l) ==
    LET lastActivity == IF activity[l] = NoRecord THEN now ELSE activity[l]
        isActive == l = getActiveRootLeaf
        isPinned == l \in pinned
    IN [fileName |-> l, isActive |-> isActive, isPinned |-> isPinned,
        lastActivity |-> lastActivity, inactiveTime |-> now - lastActivity,
        willClose |-> /\ ~isPinned /\ ~isActive
                      /\ now - lastActivity >=
                            settings.inactiveTimeoutMinutes * MsPerMinute]

\* The comparison of statusList.sort: active first, then pinned, then the
\* longest inactive; rows that compare equal keep their order.
SortsBefore(a, b) ==
    IF a.isActive # b.isActive THEN a.isActive
    ELSE IF a.isPinned # b.isPinned THEN a.isPinned
    ELSE a.inactiveTime > b.inactiveTime

\* TabManager.showStatus: the list handed to the status modal
showStatus ==
    LET en == iterateRootLeaves
        rows == [i \in 1..Len(en) |-> StatusOf(en[i])]
        ahead(i) == {j \in 1..Len(en) :
                        \/ SortsBefore(rows[j], rows[i])
                        \/ ~SortsBefore(rows[i], rows[j]) /\ j < i}
    IN [k \in 1..Len(en) |->
           rows[CHOOSE i \in 1..Len(en) : Cardinality(ahead(i)) = k - 1]]

\* The "Show tab activity status" command.
ShowStatus ==
    /\ started
    /\ \A l \in Range(iterateRootLeaves) : ~Throws(l, "getViewState")
    /\ ev' = EventR("showStatus", 0, "none", showStatus)
    /\ UNCHANGED <<hostVars, pluginVars, tabVars, histVars, storeVars, appended,
                   capStable, nAppends>>

----------------------------------------------------------------------------
(* Plugin lifecycle and the settings tab *)

\* onload: tabManager.start()
Start ==
    /\ ~started
    /\ started' = TRUE
    /\ handlers' = registerActiveLeafChangeListener
    /\ activity' = initializeLeafTracking
    /\ timer' = startPeriodicCheck(timer)
    /\ ev' = Event("start", 0)
    /\ UNCHANGED <<hostVars, settings, saves, sweeps, histVars, storeVars,
                   appended, capStable, nAppends>>

\* A variant of the handler that trims the history to the new capacity at once.
ChangeTrimsAtOnce(field, v, restart) ==
    /\ started
    /\ Len(saves) < MaxPendingSaves
    /\ settings[field] # v
    /\ settings' = [settings EXCEPT ![field] = v]
    /\ history' = SliceLast(history, settings'.maxHistoryEntries)
    /\ saves' = Append(saves, [restart |-> restart])
    /\ capStable' = (capStable /\ field # "maxHistoryEntries")
    /\ ev' = Event("ui", 0)
    /\ UNCHANGED <<hostVars, started, handlers, tabVars, hmBuild, calls, storeVars,
                   appended, nAppends>>

\* A settings-tab onChange handler up to its await of saveSettings().
Change(field, v, restart) ==
    /\ started
    /\ Len(saves) < MaxPendingSaves
    /\ settings[field] # v
    /\ settings' = [settings EXCEPT ![field] = v]
    /\ saves' = Append(saves, [restart |-> restart])
    /\ capStable' = (capStable /\ field # "maxHistoryEntries")
    /\ ev' = Event("ui", 0)
    /\ UNCHANGED <<hostVars, started, handlers, tabVars, histVars, storeVars, appended,
                   nAppends>>

\* Number.parseInt(value, 10) of the text of a field: an optional minus sign,
\* then the longest run of digits; what follows the digits is ignored, and
\* there is no number (NaN) when no digit comes first.
Digits == <<"0", "1">>
Chars == Range(Digits) \cup {"-", "a"}
Texts == UNION {[1..n -> Chars] : n \in 0..MaxTextLen}

DigitValue(ch) == (CHOOSE k \in 1..Len(Digits) : Digits[k] = ch) - 1
NaN == [nan |-> TRUE, n |-> 0]
Number(n) == [nan |-> FALSE, n |-> n]

RECURSIVE DigitRun(_)
DigitRun(text) ==
    IF text = <<>> \/ Head(text) \notin Range(Digits) THEN <<>>
    ELSE <<Head(text)>> \o DigitRun(Tail(text))

RECURSIVE Decimal(_)
Decimal(run) ==
    IF run = <<>> THEN 0
    ELSE 10 * Decimal(SubSeq(run, 1, Len(run) - 1)) + DigitValue(run[Len(run)])

parseInt(text) ==
    LET minus == text # <<>> /\ Head(text) = "-"
        run == DigitRun(IF minus THEN Tail(text) ELSE text)
    IN IF run = <<>> THEN NaN
       ELSE Number(IF minus THEN 0 - Decimal(run) ELSE Decimal(run))

\* The onChange handler of a numeric text field, up to its await of
\* saveSettings(): it does nothing unless parseInt gives a positive number.
TypeNumber(field, text, restart) ==
    LET numValue == parseInt(text)
    IN /\ started
       /\ IF ~numValue.nan /\ numValue.n > 0
          THEN /\ Len(saves) < MaxPendingSaves
               /\ settings' = [settings EXCEPT ![field] = numValue.n]
               /\ saves' = Append(saves, [restart |-> restart])
               /\ capStable' = (capStable /\ field # "maxHistoryEntries")
               /\ ev' = EventR("typed", 0, "accepted", <<field, text>>)
          ELSE /\ ev' = EventR("typed", 0, "rejected", <<field, text>>)
               /\ UNCHANGED <<settings, saves, capStable>>
       /\ UNCHANGED <<hostVars, started, handlers, tabVars, histVars, storeVars, appended,
                      nAppends>>

TypeInactiveTimeout(text) == TypeNumber("inactiveTimeoutMinutes", text, FALSE)
TypeCheckInterval(text) == TypeNumber("checkIntervalSeconds", text, TRUE)
TypeMaxHistoryEntries(text) == TypeNumber("maxHistoryEntries", text, FALSE)

SetEnabled(v) == Change("enabled", v, TRUE)
SetInactiveTimeoutMinutes(v) == Change("inactiveTimeoutMinutes", v, FALSE)
SetLogHistory(v) == Change("logHistory", v, FALSE)
SetLogToFile(v) == Change("logToFile", v, FALSE)
SetMaxHistoryEntries(v) == Change("maxHistoryEntries", v, FALSE)

\* The settings keys that saveData(this.settings) writes.
saveSettingsFields ==
    IF diskSettings = NoFields THEN NoFields ELSE Fields(settings)

\* saveSettings() resolves: saveData wrote plugin.settings, which still holds
\* the closedTabsHistory it was loaded with; the handler may then call
\* tabManager.updateSettings(), that is stop() and start().
SaveSettingsDone ==
    /\ saves # <<>>
    /\ saves' = Tail(saves)
    /\ disk' = settings.closedTabsHistory
    /\ diskSettings' = saveSettingsFields
    /\ IF Head(saves).restart
       THEN /\ activity' = initializeLeafTracking
            /\ timer' = updateSettings(timer)
       ELSE UNCHANGED <<activity, timer>>
    /\ started' = (started \/ Head(saves).restart)
    /\ handlers' = IF Head(saves).restart THEN registerActiveLeafChangeListener
                   ELSE handlers
    /\ ev' = Event("ui", 0)
    /\ UNCHANGED <<hostVars, settings, sweeps, histVars, mirror, folder,
                   appended, capStable, nAppends>>

\* A variant of onunload that leaves the interval running.
StopKeepsTimer ==
    /\ started
    /\ started' = FALSE
    /\ handlers' = 0
    /\ ev' = Event("stop", 0)
    /\ UNCHANGED <<hostVars, settings, saves, tabVars, histVars, storeVars,
                   appended, capStable, nAppends>>

\* onunload: tabManager.stop() clears the interval; the host drops the
\* plugin's event handlers and commands.  Sweeps in flight are not touched.
Stop ==
    /\ started
    /\ started' = FALSE
    /\ handlers' = 0
    /\ timer' = NoTimer
    /\ ev' = Event("stop", 0)
    /\ UNCHANGED <<hostVars, settings, saves, activity, sweeps, histVars,
                   storeVars, appended, capStable, nAppends>>

----------------------------------------------------------------------------
(* HistoryManager: the calls made from the history view and the commands *)

GetHistory ==
    /\ started
    /\ ev' = EventR("getHistory", 0, "none", getHistory)
    /\ UNCHANGED <<hostVars, pluginVars, tabVars, hmBuild, history, calls,
                   storeVars, appended, capStable, nAppends>>

ExportHistory ==
    /\ started
    /\ history' = exportHistoryStored
    /\ ev' = EventR("exportHistory", 0, "none", exportHistory)
    /\ UNCHANGED <<hostVars, pluginVars, tabVars, hmBuild, calls,
                   storeVars, appended, capStable, nAppends>>

\* A variant of the button that also resets the mirror file to its header.
ClearHistoryResetsMirror ==
    /\ started
    /\ calls[0].pc = "idle"
    /\ history' = IF logsHistory THEN trim(clearHistory) ELSE clearHistory
    /\ calls' = IF logsHistory THEN [calls EXCEPT ![0] = SaveHistoryCall] ELSE calls
    /\ mirror' = IF mirror.kind = "file" THEN FileWith(<<HeaderLine>>) ELSE mirror
    /\ appended' = <<>>
    /\ capStable' = TRUE
    /\ ev' = Event("clearHistory", 0)
    /\ UNCHANGED <<hostVars, pluginVars, tabVars, hmBuild, disk, diskSettings, folder,
                   nAppends>>

\* The confirmed "Clear history" button: clearHistory(), then saveHistory()
\* up to its await.
ClearHistory ==
    /\ started
    /\ calls[0].pc = "idle"
    /\ history' = IF logsHistory THEN trim(clearHistory) ELSE clearHistory
    /\ calls' = IF logsHistory THEN [calls EXCEPT ![0] = SaveHistoryCall] ELSE calls
    /\ appended' = <<>>
    /\ capStable' = TRUE
    /\ ev' = Event("clearHistory", 0)
    /\ UNCHANGED <<hostVars, pluginVars, tabVars, hmBuild, storeVars,
                   nAppends>>

\* addEntry called directly, up to its first await.
addEntry(c) ==
    /\ started
    /\ FreeSlot(c)
    /\ nAppends < MaxAppends
    /\ nAppends' = nAppends + 1
    /\ LET e == ClosedTabEntry(nAppends + 1, 0, now)
       IN IF logsHistory
          THEN /\ history' = pushAndTrim(history, e)
               /\ calls' = [calls EXCEPT ![c] = AddEntryCall(e)]
               /\ appended' = Append(appended, e)
               /\ ev' = Event("addEntry", e.fileName)
          ELSE /\ ev' = Event("addEntryOff", e.fileName)
               /\ UNCHANGED <<history, calls, appended>>
    /\ UNCHANGED <<hostVars, pluginVars, tabVars, hmBuild, storeVars,
                   capStable>>

\* addEntry called when no other addEntry is in flight.
AddEntry(c) ==
    /\ \A r \in Slots : calls[r].pc = "idle"
    /\ addEntry(c)

----------------------------------------------------------------------------
(* Specifications *)

CallIds == {0} \cup Slots

\* plugin.settings; the interval's period does not matter to the model, where
\* the interval may fire at any step, and starts at one second.
SettingsOf(en, t, lh, lf, m, stored) ==
    [enabled |-> en, inactiveTimeoutMinutes |-> t, checkIntervalSeconds |-> 1,
     logHistory |-> lh, logToFile |-> lf, maxHistoryEntries |-> m,
     closedTabsHistory |-> stored]

\* loadHistory: the stored array, if there is one
loadHistory(stored) == IF stored.present THEN stored.h ELSE <<>>

\* The sweep in a live workspace.  After the constructors and loadSettings/
\* loadHistory of onload, with no data file yet and an empty workspace; the
\* settings stay as loaded (history logged to the data file only, or not
\* logged at all while the mirror is switched on), loadData and saveData
\* resolve, and a sweep begins only when none is in flight.
Init ==
    /\ open = {} /\ gone = {} /\ pinned = {} /\ focus = NoLeaf
    /\ lastUse = [l \in Leaves |-> NoRecord]
    /\ failing = NoneFailing
    /\ now = StartTime
    /\ settings \in {SettingsOf(TRUE, t, lh, ~lh, MaxCapacity, NoData) :
                        t \in 1..MaxTimeoutMinutes, lh \in BOOLEAN}
    /\ started = FALSE
    /\ handlers = 0
    /\ saves = <<>>
    /\ activity = [l \in Leaves |-> NoRecord]
    /\ timer = NoTimer
    /\ sweeps = [s \in Slots |-> IdleSweep]
    /\ hmBuild = "current"
    /\ history = loadHistory(settings.closedTabsHistory)
    /\ calls = [c \in CallIds |-> IdleCall]
    /\ disk = settings.closedTabsHistory
    /\ diskSettings = NoFields
    /\ mirror = NoFile
    /\ folder = FALSE
    /\ appended = <<>>
    /\ capStable = TRUE
    /\ nAppends = 0
    /\ ev = Event("init", 0)

CallStep(c) ==
    \/ LoadDataDone(c)
    \/ SaveDataDone(c)
    \/ PersistFail(c)
    \/ AppendDone(c)
    \/ AppendFail(c)
    \/ MkFolderDone(c)
    \/ MkFolderFail(c)
    \/ CreateDone(c)
    \/ CreateFail(c)

Next ==
    \/ \E l \in Leaves : OpenLeaf(l)
    \/ \E l \in Leaves : FocusLeaf(l)
    \/ FileOpen
    \/ \E l \in Leaves : TogglePin(l)
    \/ \E l \in Leaves : CloseLeaf(l)
    \/ \E d \in TickSteps : Tick(d)
    \/ Start
    \/ \E s \in SoloSlots : TimerFire(s)
    \/ \E s \in SoloSlots : manualCheck(s)
    \/ \E c \in SoloSlots : LoadDataDone(c)
    \/ \E c \in SoloSlots : SaveDataDone(c)

Spec == Init /\ [][Next]_vars

----------------------------------------------------------------------------
(* Properties of the sweep, checked under Spec *)

\* The state right after a sweep classified the leaves, and what it saw.
Classifying == ev.op = "sweep"
Census == ev.ret.census
Chosen == ItemLeaves(ev.ret.census.leavesToClose)
Enumerated == Range(ev.ret.census.enumerated)

\* A leaf the sweep enumerated that was neither pinned nor the active leaf.
Unprotected(l) ==
    /\ l \in Enumerated
    /\ l \notin Census.pinnedAt
    /\ l # Census.focusAt

\* The leaves a sweep still has to close are those it chose when classifying,
\* and a resumed sweep detaches nothing else.
ClosesOnlyChosen ==
    \A s \in Slots :
        ev.op = "sweep" /\ ev.arg = s =>
            {NoLeaf, sweeps[s].cur.leaf} \cup ItemLeaves(sweeps[s].queue)
                \cup ev.ret.closed = {NoLeaf} \cup Chosen

ResumeDetachesQueued ==
    \A s \in Slots :
        ev'.op = "resume" /\ ev'.arg = s =>
            /\ open \ open' \subseteq {sweeps[s].cur.leaf} \cup ItemLeaves(sweeps[s].queue)
            /\ {sweeps'[s].cur.leaf} \cup ItemLeaves(sweeps'[s].queue)
                   \subseteq {NoLeaf} \cup ItemLeaves(sweeps[s].queue)

PinnedSpared ==
    Classifying =>
        \A l \in Census.pinnedAt : l \notin Chosen /\ l \notin ev.ret.closed

\* C1: a pane that is pinned when a sweep (timer or manual) classifies it is
\* never put in leavesToClose and never detached by that sweep, however old
\* its last activity.
C1_PinnedNeverEvicted ==
    /\ [](PinnedSpared /\ ClosesOnlyChosen)
    /\ [][ResumeDetachesQueued]_vars

\* A sweep met a pinned, unfocused pane inactive for the timeout or longer.
C1_Witness ==
    /\ Classifying
    /\ \E l \in Census.pinnedAt \cap Enumerated :
          /\ l # Census.focusAt
          /\ ~Falsy(Census.activityAt[l])
          /\ Census.at - Census.activityAt[l] >= Census.timeoutMs
          /\ l \in open

\* C2: the main-area pane that is the most recent leaf when a sweep classifies
\* is never put in leavesToClose, whatever its last activity.
C2_FocusedNeverEvictable ==
    Classifying /\ isRootLeaf(Census.focusAt) =>
        Census.focusAt \notin Chosen /\ Census.focusAt \notin ev.ret.closed

\* A sweep met the focused pane unpinned and inactive for the timeout or longer.
C2_Witness ==
    /\ Classifying
    /\ Census.focusAt \in Enumerated \ Census.pinnedAt
    /\ ~Falsy(Census.activityAt[Census.focusAt])
    /\ Census.at - Census.activityAt[Census.focusAt] >= Census.timeoutMs
    /\ Chosen # {}

SeededAndSkipped ==
    Classifying =>
        \A l \in Leaves :
            Unprotected(l) /\ Falsy(Census.activityAt[l]) =>
                /\ l \notin Chosen /\ l \notin ev.ret.closed
                /\ activity[l] = Census.at

ChosenWereTracked ==
    Classifying =>
        \A l \in Chosen :
            /\ ~Falsy(Census.activityAt[l])
            /\ Census.at - Census.activityAt[l] >= Census.timeoutMs

RecordsOnlyAdvance ==
    \A l \in Leaves : activity[l] # NoRecord => activity'[l] >= activity[l]

\* C3: a main-area pane without an activity record when a sweep observes it is
\* not evicted by that sweep; the sweep records the sweep's instant for it and
\* skips it.  Records only advance and a sweep chooses only panes whose record
\* is a timeout or more old, so it is evicted a timeout after the seeding at
\* the earliest.
C3_GracePeriod ==
    /\ [](SeededAndSkipped /\ ChosenWereTracked)
    /\ [][RecordsOnlyAdvance]_vars

\* A sweep seeded a pane that had been open, unrecorded, before the clock last
\* advanced, while it chose another pane.
C3_Witness ==
    /\ Classifying
    /\ Chosen # {}
    /\ \E l \in Leaves :
          /\ Unprotected(l) /\ Falsy(Census.activityAt[l])
          /\ activity[l] = Census.at
          /\ l \in open

Threshold ==
    Classifying =>
        \A l \in Leaves :
            Unprotected(l) /\ ~Falsy(Census.activityAt[l]) =>
                /\ l \in Chosen <=>
                      Census.at - Census.activityAt[l] >= Census.timeoutMs
                /\ l \in Chosen =>
                      Item(l, Census.at - Census.activityAt[l])
                          \in Range(Census.leavesToClose)

\* The scenario: timeout one minute, A and pinned B both touched at T, a manual
\* sweep at T + 61 s.
Scenario(A, B) ==
    /\ Classifying
    /\ Census.kind = "manual"
    /\ Census.timeoutMs = MsPerMinute
    /\ Census.enumerated = Ordered({A, B})
    /\ A # B
    /\ Census.focusAt # A
    /\ A \notin Census.pinnedAt /\ B \in Census.pinnedAt
    /\ Census.activityAt[A] = Census.activityAt[B]
    /\ Census.at = Census.activityAt[A] + MsPerMinute + MsPerSecond

\* What the scenario's sweep step does: A alone is chosen, with 61 s of
\* inactivity (1.0 minutes in the log line); B stays as it was; the history
\* gains A's entry and nothing else, or nothing when it is not logged.  A is
\* detached in this step when not logged, and when addEntry returns otherwise.
ScenarioOutcome(A, B) ==
    LET e == ClosedTabEntry(A, MsPerMinute + MsPerSecond, now)
    IN /\ ev'.ret.census.leavesToClose = <<Item(A, MsPerMinute + MsPerSecond)>>
       /\ B \in open' /\ B \in pinned' /\ activity'[B] = activity[B]
       /\ LogLine(e).tenths = 10
       /\ IF settings.logHistory
          THEN /\ history' = SliceLast(Append(history, e), settings.maxHistoryEntries)
               /\ Len(history) < settings.maxHistoryEntries =>
                      Len(history') = Len(history) + 1
               /\ sweeps'[ev'.arg].cur.leaf = A /\ sweeps'[ev'.arg].queue = <<>>
               /\ ev'.ret.closed = {}
          ELSE /\ history' = history
               /\ ev'.ret.closed = {A}

ScenarioStep ==
    \A A, B \in RootLeaves : Scenario(A, B)' => ScenarioOutcome(A, B)

\* Once a sweep's loop ends, every leaf it closed is gone from the workspace.
ClosedAreGone ==
    ev.op \in {"sweep", "resume"} => ev.ret.closed \subseteq gone

\* C4: an unpinned, unfocused, tracked main-area pane is chosen for eviction by
\* a sweep exactly when now - lastActivity >= timeout (chosen at equality, not
\* below); with timeout one minute, A and pinned B touched at T and a manual
\* sweep at T + 61 s, A is evicted after 1.0 minutes, B is untouched and the
\* history has exactly one entry.
C4_ThresholdBoundary ==
    /\ [](Threshold /\ ClosedAreGone)
    /\ [][ScenarioStep]_vars

\* A sweep chose a pane whose inactivity was exactly the timeout.
C4_Witness ==
    /\ Classifying
    /\ \E l \in Chosen :
          /\ Unprotected(l)
          /\ Census.at - Census.activityAt[l] = Census.timeoutMs

\* The scenario of C4 happened, with the history logged.
C4_ScenarioReached ==
    \E A, B \in RootLeaves : Scenario(A, B) /\ settings.logHistory

SideNeverEnumerated ==
    Classifying =>
        \A l \in SideLeaves :
            l \notin Enumerated /\ l \notin Chosen /\ l \notin ev.ret.closed

OnlyTheUserClosesSide ==
    \A l \in SideLeaves : l \in open /\ l \notin open' => ev'.op = "host"

\* C5: a pane in a side panel is never enumerated by a sweep and never evicted;
\* when a side pane and a main-area pane have both been idle beyond the
\* timeout, leavesToClose holds the main-area pane only.
C5_SidePanesOutOfScope ==
    /\ [](SideNeverEnumerated)
    /\ [][OnlyTheUserClosesSide]_vars

\* A sweep chose a main-area pane while an unfocused side pane was open and the
\* plugin had never recorded any activity for it.
C5_Witness ==
    /\ Classifying
    /\ Chosen # {}
    /\ \E l \in SideLeaves :
          /\ l \in open /\ l # Census.focusAt
          /\ Falsy(Census.activityAt[l])
    /\ Census.at - StartTime >= Census.timeoutMs

NothingLoggedWhenOff ==
    ~settings.logHistory =>
        /\ history = <<>> /\ disk = NoData /\ mirror = NoFile
        /\ \A c \in CallIds : calls[c] = IdleCall

SweepWithoutLog ==
    ~settings.logHistory /\ ev'.op = "sweep" =>
        /\ history' = history /\ disk' = disk /\ mirror' = mirror
        /\ folder' = folder /\ calls' = calls
        /\ ev'.ret.closed = ItemLeaves(ev'.ret.census.leavesToClose)
        /\ open' = open \ ev'.ret.closed
        /\ ev'.ret.closed \subseteq gone'

\* C9: with logHistory false, addEntry changes neither the history in memory,
\* nor the persisted history, nor the mirror file (logToFile being true), and
\* leaves no call in flight; the sweep detaches the panes it chose all the
\* same, so the eviction leaves no record.
C9_LoggingOffIsNoOp ==
    /\ [](NothingLoggedWhenOff)
    /\ [][SweepWithoutLog]_vars

\* A sweep closed a pane with logHistory false and logToFile true.
C9_Witness ==
    /\ Classifying
    /\ ~settings.logHistory /\ settings.logToFile
    /\ ev.ret.closed # {}
    /\ ev.ret.closed \subseteq gone
    /\ history = <<>>

----------------------------------------------------------------------------
(* The HistoryManager on its own *)

\* The HistoryManager driven directly, one addEntry at a time: the plugin is
\* started and disabled in an empty workspace, with the data file an earlier
\* session left.
OldEntry(i) == ClosedTabEntry(MaxAppends + i, 0, 0)

StoredChoices == {NoData, Stored([i \in 1..MaxStoredEntries |-> OldEntry(i)])}

InitDirect(logToFileChoices, capacities, storedChoices, mirrorChoices) ==
    /\ open = {} /\ gone = {} /\ pinned = {} /\ focus = NoLeaf
    /\ lastUse = [l \in Leaves |-> NoRecord]
    /\ failing = NoneFailing
    /\ now = StartTime
    /\ settings \in {SettingsOf(FALSE, 1, TRUE, lf, m, st) :
                        lf \in logToFileChoices, m \in capacities,
                        st \in storedChoices}
    /\ started = TRUE
    /\ handlers = 1
    /\ saves = <<>>
    /\ activity = [l \in Leaves |-> NoRecord]
    /\ timer = NoTimer
    /\ sweeps = [s \in Slots |-> IdleSweep]
    /\ hmBuild \in {"current", "legacy"}
    /\ history = loadHistory(settings.closedTabsHistory)
    /\ calls = [c \in CallIds |-> IdleCall]
    /\ disk = settings.closedTabsHistory
    /\ diskSettings = NoFields
    /\ mirror \in mirrorChoices
    /\ folder \in IF mirror = NoFile THEN BOOLEAN ELSE {TRUE}
    /\ appended = history
    /\ capStable = (Len(history) <= settings.maxHistoryEntries)
    /\ nAppends = 0
    /\ ev = Event("init", 0)

\* The in-memory log and the data file, with the mirror file switched off.
InitHistory == InitDirect({FALSE}, 1..MaxCapacity, StoredChoices, {NoFile})

NextHistory ==
    \/ \E c \in Slots : AddEntry(c)
    \/ \E c \in CallIds : LoadDataDone(c)
    \/ \E c \in CallIds : SaveDataDone(c)
    \/ \E c \in CallIds : PersistFail(c)
    \/ GetHistory
    \/ ExportHistory
    \/ ClearHistory
    \/ \E v \in BOOLEAN : SetLogHistory(v)
    \/ \E v \in 1..MaxCapacity : SetMaxHistoryEntries(v)
    \/ SaveSettingsDone

SpecHistory == InitHistory /\ [][NextHistory]_vars

\* The exported text.  The data file holds entries of yesterday and today, in
\* the order they were appended; more are appended as the clock advances.
ExportCapacity == MaxCapacity + 1

PastTimes == {StartTime - MsPerDay, StartTime - MsPerDay + MsPerMinute, StartTime}

StoredHistories ==
    UNION {{[i \in 1..n |-> ClosedTabEntry(MaxAppends + i, 0, ts[i])] :
               ts \in {f \in [1..n -> PastTimes] :
                          \A i, j \in 1..n : i < j => f[i] <= f[j]}} :
           n \in 1..MaxStoredEntries}

InitExport ==
    InitDirect({FALSE}, {ExportCapacity},
               {NoData} \cup {Stored(h) : h \in StoredHistories}, {NoFile})

NextExport ==
    \/ \E d \in TickSteps : Tick(d)
    \/ \E c \in SoloSlots : AddEntry(c)
    \/ \E c \in SoloSlots : LoadDataDone(c)
    \/ \E c \in SoloSlots : SaveDataDone(c)
    \/ GetHistory
    \/ ExportHistory

SpecExport == InitExport /\ [][NextExport]_vars

\* The mirror file, with the log capacity left alone.
InitMirror == InitDirect({TRUE}, {MaxCapacity}, {NoData}, {NoFile, NotAFile})

NextMirror ==
    \/ \E c \in Slots : AddEntry(c)
    \/ \E c \in CallIds : CallStep(c)
    \/ ExportHistory
    \/ ClearHistory
    \/ \E v \in BOOLEAN : SetLogHistory(v)
    \/ \E v \in BOOLEAN : SetLogToFile(v)
    \/ SaveSettingsDone

SpecMirror == InitMirror /\ [][NextMirror]_vars

\* Sweeps that overlap and fail.  The plugin has started in a workspace where
\* every leaf is open, the main-area leaves unpinned and last active at the
\* start, and the focus in a side panel; the history is logged to the data
\* file only; the clock advances, the interval fires and the command is run
\* whether or not a sweep is in flight; loadData, saveData and leaf.detach()
\* may fail.
InitFaults ==
    /\ open = Leaves /\ gone = {} /\ pinned = {}
    /\ focus \in SideLeaves
    /\ lastUse = [l \in Leaves |-> NoRecord]
    /\ failing = NoneFailing
    /\ now = StartTime
    /\ settings = SettingsOf(TRUE, 1, TRUE, FALSE, MaxCapacity, NoData)
    /\ started = TRUE
    /\ handlers = 1
    /\ saves = <<>>
    /\ activity = [l \in Leaves |-> IF isRootLeaf(l) THEN StartTime ELSE NoRecord]
    /\ timer = Interval(MsPerMinute)
    /\ sweeps = [s \in Slots |-> IdleSweep]
    /\ hmBuild = "current"
    /\ history = <<>>
    /\ calls = [c \in CallIds |-> IdleCall]
    /\ disk = NoData
    /\ diskSettings = NoFields
    /\ mirror = NoFile
    /\ folder = FALSE
    /\ appended = <<>>
    /\ capStable = TRUE
    /\ nAppends = 0
    /\ ev = Event("init", 0)

NextFaults ==
    \/ \E d \in TickSteps : Tick(d)
    \/ \E s \in Slots : TimerFire(s)
    \/ \E s \in Slots : manualCheck(s)
    \/ \E c \in Slots : LoadDataDone(c)
    \/ \E c \in Slots : SaveDataDone(c)
    \/ \E c \in Slots : PersistFail(c)
    \/ \E c \in Slots : DetachFail(c)

SpecFaults == InitFaults /\ [][NextFaults]_vars

\* The schedule and the settings tab.  The plugin has started in a workspace
\* with one main-area leaf open since the start and the focus in a side panel;
\* another leaf may be opened (untracked until a sweep sees it); the user
\* toggles "enabled" and edits the timeout, and may unload the plugin; one
\* sweep is in flight at a time and the data file does not fail.
InitSchedule ==
    /\ open = Leaves \ {NumRootLeaves} /\ gone = {} /\ pinned = {}
    /\ focus \in SideLeaves
    /\ lastUse = [l \in Leaves |-> NoRecord]
    /\ failing = NoneFailing
    /\ now = StartTime
    /\ settings \in {SettingsOf(TRUE, t, TRUE, FALSE, MaxCapacity, NoData) :
                        t \in 1..MaxTimeoutMinutes}
    /\ started = TRUE
    /\ handlers = 1
    /\ saves = <<>>
    /\ activity = [l \in Leaves |->
                      IF isRootLeaf(l) /\ l \in open THEN StartTime ELSE NoRecord]
    /\ timer = Interval(settings.inactiveTimeoutMinutes * MsPerMinute)
    /\ sweeps = [s \in Slots |-> IdleSweep]
    /\ hmBuild = "current"
    /\ history = <<>>
    /\ calls = [c \in CallIds |-> IdleCall]
    /\ disk = NoData
    /\ diskSettings = NoFields
    /\ mirror = NoFile
    /\ folder = FALSE
    /\ appended = <<>>
    /\ capStable = TRUE
    /\ nAppends = 0
    /\ ev = Event("init", 0)

NextSchedule ==
    \/ \E l \in RootLeaves : OpenLeaf(l)
    \/ \E d \in TickSteps : Tick(d)
    \/ \E s \in SoloSlots : TimerFire(s)
    \/ \E s \in SoloSlots : manualCheck(s)
    \/ \E c \in SoloSlots : LoadDataDone(c)
    \/ \E c \in SoloSlots : SaveDataDone(c)
    \/ \E v \in BOOLEAN : SetEnabled(v)
    \/ \E v \in 1..MaxTimeoutMinutes : SetInactiveTimeoutMinutes(v)
    \/ SaveSettingsDone
    \/ Stop

SpecSchedule == InitSchedule /\ [][NextSchedule]_vars

\* The same, with the host resolving every loadData() and saveData() an
\* addEntry awaits: a promise of the data file does not stay pending forever.
SpecScheduleLive ==
    /\ SpecSchedule
    /\ \A c \in SoloSlots : WF_vars(LoadDataDone(c)) /\ WF_vars(SaveDataDone(c))

\* The numeric fields of the settings tab: any short text may land in any of
\* them (typed or pasted), and the saves resolve.
NextSettings ==
    \/ \E text \in Texts : TypeInactiveTimeout(text)
    \/ \E text \in Texts : TypeCheckInterval(text)
    \/ \E text \in Texts : TypeMaxHistoryEntries(text)
    \/ SaveSettingsDone

SpecSettings == InitSchedule /\ [][NextSettings]_vars

\* The lifecycle of the manager.  The plugin has started in a workspace with
\* one main-area leaf open and the focus in a side panel; the user moves the
\* focus and opens files, time passes, the user toggles "enabled" (which
\* restarts the manager once the settings are saved) and may unload the plugin.
NextLifecycle ==
    \/ \E l \in Leaves : FocusLeaf(l)
    \/ FileOpen
    \/ \E l \in RootLeaves : OpenLeaf(l)
    \/ \E d \in TickSteps : Tick(d)
    \/ \E v \in BOOLEAN : SetEnabled(v)
    \/ SaveSettingsDone
    \/ Stop

SpecLifecycle == InitSchedule /\ [][NextLifecycle]_vars

\* The status command next to the schedule.  The plugin has started in a
\* workspace with one main-area leaf open and the focus in a side panel; the
\* user opens, focuses and pins leaves, time passes, the user toggles "enabled"
\* and edits the timeout, and asks for the status.
NextStatus ==
    \/ \E l \in RootLeaves : OpenLeaf(l)
    \/ \E l \in Leaves : FocusLeaf(l)
    \/ \E l \in RootLeaves : TogglePin(l)
    \/ \E d \in TickSteps : Tick(d)
    \/ \E v \in BOOLEAN : SetEnabled(v)
    \/ \E v \in 1..MaxTimeoutMinutes : SetInactiveTimeoutMinutes(v)
    \/ SaveSettingsDone
    \/ ShowStatus

SpecStatus == InitSchedule /\ [][NextStatus]_vars

\* The host begins to throw on query q of the open leaf l.
QueryFails(l, q) ==
    /\ l \in open
    /\ failing[l] = "none"
    /\ failing' = [failing EXCEPT ![l] = q]
    /\ ev' = Event("host", 0)
    /\ UNCHANGED <<open, gone, pinned, focus, lastUse, now, pluginVars, tabVars,
                   histVars, storeVars, appended, capStable, nAppends>>

\* Sweeps in a workspace whose per-leaf queries may fail.  The plugin has
\* started with every leaf open and the focus in a side panel; the user moves
\* the focus, time passes, the host may begin to throw on a query of a leaf,
\* and one sweep is in flight at a time.
InitQueries == InitFaults

NextQueries ==
    \/ \E l \in Leaves : FocusLeaf(l)
    \/ \E d \in TickSteps : Tick(d)
    \/ \E l \in RootLeaves, q \in Queries : QueryFails(l, q)
    \/ \E s \in SoloSlots : TimerFire(s)
    \/ \E s \in SoloSlots : manualCheck(s)
    \/ \E c \in SoloSlots : LoadDataDone(c)
    \/ \E c \in SoloSlots : SaveDataDone(c)

SpecQueries == InitQueries /\ [][NextQueries]_vars

\* Mirror writes that overlap: addEntry is called while another addEntry is
\* in flight (as two overlapping sweeps do), the log file is not there yet,
\* and the vault and the data file do not fail.
InitRace == InitDirect({TRUE}, {MaxCapacity}, {NoData}, {NoFile})

NextRace ==
    \/ \E c \in Slots : addEntry(c)
    \/ \E c \in Slots : LoadDataDone(c)
    \/ \E c \in Slots : SaveDataDone(c)
    \/ \E c \in Slots : MkFolderDone(c)
    \/ \E c \in Slots : CreateDone(c)
    \/ \E c \in Slots : AppendDone(c)

SpecRace == InitRace /\ [][NextRace]_vars

----------------------------------------------------------------------------
(* Properties of the history log, checked under SpecHistory *)

\* The entry of the i-th direct addEntry call.
NthEntry(i) == ClosedTabEntry(i, 0, StartTime)

\* An addEntry call has just come back to its caller: at once when logging is
\* off, after its awaits otherwise.
AddEntryReturned == ev.op \in {"return", "addEntryOff"}

\* C6 as stated: len(history) <= maxHistoryEntries right after every addEntry
\* call returns, whatever settings changes and loads went on around it.
C6_BoundAtReturn ==
    AddEntryReturned => Len(history) <= settings.maxHistoryEntries

\* C6, amended: with logHistory true, len(history) <= maxHistoryEntries holds
\* right after addEntry's push and trim, before its first await, and the entry
\* pushed is the newest one.
C6_BoundAfterPush ==
    ev.op = "addEntry" =>
        /\ Len(history) <= settings.maxHistoryEntries
        /\ history # <<>>
        /\ history[Len(history)].fileName = ev.arg

\* An addEntry whose push made the history overflow, and trimmed it.
C6_Witness ==
    /\ ev.op = "addEntry"
    /\ Len(appended) > settings.maxHistoryEntries
    /\ Len(history) = settings.maxHistoryEntries

\* C7: after any sequence of addEntry, getHistory, exportHistory and
\* clearHistory calls, the capacity being what it was at the last clear, the
\* stored history is the most recent min(k, maxHistoryEntries) of the k entries
\* appended since then, in append order.
C7_FifoTrim ==
    capStable => history = SliceLast(appended, settings.maxHistoryEntries)

GetHistoryReverses ==
    ev.op = "getHistory" => ev.ret = Reverse(history)

GetHistoryScenario ==
    /\ ev.op = "getHistory"
    /\ hmBuild = "current"
    /\ capStable
    /\ settings.maxHistoryEntries = 2
    /\ appended = <<NthEntry(1), NthEntry(2), NthEntry(3)>>

GetHistoryReadsOnly ==
    ev'.op = "getHistory" =>
        /\ history' = history
        /\ disk' = disk
        /\ ev'.ret = Reverse(history)

\* C8: getHistory returns the stored entries most recent first, the exact
\* reverse of the storage order, and leaves the stored sequence as it was;
\* with maxHistoryEntries = 2 and E1, E2, E3 appended in order it returns
\* <<E3, E2>>.
C8_GetHistoryNewestFirst ==
    /\ [](GetHistoryReverses)
    /\ [](GetHistoryScenario => ev.ret = <<NthEntry(3), NthEntry(2)>>)
    /\ [][GetHistoryReadsOnly]_vars

\* getHistory called after E1, E2, E3 were appended with a capacity of two.
C8_Witness ==
    /\ GetHistoryScenario
    /\ ev.ret = <<NthEntry(3), NthEntry(2)>>
    /\ history = <<NthEntry(2), NthEntry(3)>>

----------------------------------------------------------------------------
(* Properties of the mirror step, checked under SpecMirror *)

MirrorPcs == {"append", "mkfolder", "create", "fallback"}

MirrorStepIsolated ==
    \A c \in CallIds :
        calls[c].pc \in MirrorPcs /\ calls'[c] # calls[c] =>
            /\ ev'.op \in {"io", "return"}
            /\ history' = history
            /\ disk' = disk

\* The entry is the newest of the history right after the push, and still at
\* the return unless the history was emptied, or reordered by the older
\* exportHistory, during the awaits.
EntryLastUnlessDisturbed ==
    /\ ev.op = "addEntry" =>
          history # <<>> /\ history[Len(history)].fileName = ev.arg
    /\ ev.op = "return" /\ appended # <<>> /\ hmBuild = "current" =>
          history # <<>> /\ history[Len(history)].fileName = ev.arg

----------------------------------------------------------------------------
(* Properties of overlapping mirror writes, checked under SpecRace *)

\* The positions of the header block, and of an entry's line, in the file.
HeaderAt == {i \in 1..Len(mirror.lines) : mirror.lines[i].header}
LineAt(e) == {i \in 1..Len(mirror.lines) : mirror.lines[i] = LogLine(e)}

AllReturned == \A c \in CallIds : calls[c].pc = "idle"

OneHeader == mirror.kind = "file" => HeaderAt = {1}

NoLineTwice == \A i \in 1..Len(appended) : Cardinality(LineAt(appended[i])) <= 1

\* Every mirror write that returned wrote its line, the creator that lost the
\* race by appending; once all have returned the file is the header and one
\* line for each entry appended.
NoLineLost ==
    /\ ev.op = "return" =>
          /\ ev.note \in {"written", "recovered"}
          /\ \E i \in 1..Len(mirror.lines) :
                ~mirror.lines[i].header /\ mirror.lines[i].fileName = ev.arg
    /\ AllReturned /\ appended # <<>> =>
          /\ \A i \in 1..Len(appended) : Cardinality(LineAt(appended[i])) = 1
          /\ Len(mirror.lines) = Len(appended) + 1

\* A creator waiting to append after losing the race finds the file there.
LoserFindsFile ==
    \A c \in CallIds : calls[c].pc = "fallback" => mirror.kind = "file"

\* C11: when two mirror writes race on a path that does not exist yet (both
\* saw it absent, both try to create it), the file ends with exactly one header
\* block and both entries' lines, in either order: the creator that loses
\* appends, no line is lost and the header is not duplicated.
C11_MirrorRace ==
    OneHeader /\ NoLineTwice /\ NoLineLost /\ LoserFindsFile

\* The creator that lost the race has appended: one header, both lines.
C11_Witness ==
    /\ ev.op = "return" /\ ev.note = "recovered"
    /\ AllReturned
    /\ Len(appended) = 2
    /\ Len(mirror.lines) = 3
    /\ HeaderAt = {1}
    /\ LineAt(appended[1]) = {3} /\ LineAt(appended[2]) = {2}

----------------------------------------------------------------------------
(* Properties of the mirror file's content, checked under SpecMirror *)

\* A step that changes what is at the log path either creates the file, as the
\* header and one line, or appends the line of an addEntry in flight to it.
AppendOnly ==
    mirror' # mirror =>
        \E c \in CallIds :
            /\ calls[c].kind = "addEntry"
            /\ calls'[c] # calls[c]
            /\ mirror' = IF mirror.kind = "file"
                         THEN FileWith(Append(mirror.lines, LogLine(calls[c].entry)))
                         ELSE FileWith(<<HeaderLine, LogLine(calls[c].entry)>>)
            /\ mirror.kind \in {"file", "absent"}

\* C12: the mirror file is append-only: when the file exists a mirror write
\* appends exactly the one line of the new entry; across every sequence of
\* operations, clearHistory included, the earlier content is a prefix of the
\* later content, and the header occurs once, at the start.
C12_MirrorAppendOnly ==
    /\ [](OneHeader)
    /\ [][AppendOnly]_vars

\* A line was appended to the file after the history had been cleared: the
\* file keeps the lines of the entries the history no longer has.
C12_Witness ==
    /\ ev.op = "return" /\ ev.note = "written"
    /\ Len(mirror.lines) = 3
    /\ HeaderAt = {1}
    /\ Len(appended) = 1
    /\ LineAt(appended[1]) = {3}

----------------------------------------------------------------------------
(* Properties of failing and overlapping sweeps, checked under SpecFaults *)

\* The step in which leaf.detach() raised in sweep s goes on with the next
\* pane of leavesToClose, if there is one, and keeps the history.
DetachFailureIsolated ==
    \A s \in Slots :
        ev'.op = "detachThrow" /\ ev'.arg = s =>
            /\ history' = history
            /\ sweeps[s].queue # <<>> =>
                  /\ sweeps'[s].pc = "awaitAdd"
                  /\ sweeps'[s].cur = Head(sweeps[s].queue)

\* C13: if destroying one evictable pane raises during a sweep, the sweep
\* still processes every later evictable pane of that cycle (appends its entry
\* and requests its destruction), and the entry already written for the
\* failing pane is kept.
C13_DetachFailureIsolated == [][DetachFailureIsolated]_vars

\* The sweeps in flight: awaiting addEntry, with what is left of leavesToClose.
InFlight == {s \in Slots : sweeps[s].pc # "idle"}

\* C14: sweeps of one manager are serialized: no sweep, from the timer or from
\* the command, begins while an earlier one is still in flight (awaiting a
\* history save or with panes left to destroy).
C14_SweepsSerialized == Cardinality(InFlight) <= 1

\* C15: with logging on, each pane eviction makes exactly one history entry:
\* whatever the interleaving of timer sweeps, manual sweeps and failed history
\* saves, no pane is recorded twice.
C15_RecordedOnce ==
    \A i, j \in 1..Len(history) :
        history[i].fileName = history[j].fileName => i = j

\* leavesToClose lists the chosen panes in the order of the enumeration.
RECURSIVE IsSubsequence(_, _)
IsSubsequence(a, b) ==
    IF a = <<>> THEN TRUE
    ELSE IF b = <<>> THEN FALSE
    ELSE IF Head(a) = Head(b) THEN IsSubsequence(Tail(a), Tail(b))
    ELSE IsSubsequence(a, Tail(b))

ChosenInEnumerationOrder ==
    Classifying =>
        IsSubsequence([i \in 1..Len(Census.leavesToClose) |->
                          Census.leavesToClose[i].leaf],
                      Census.enumerated)

\* The history is in insertion order.
InsertionOrder ==
    \A i, j \in 1..Len(history) :
        i < j => history[i].timestamp <= history[j].timestamp

\* A step of sweep s that goes on to a pane goes on to the head of what is
\* left of leavesToClose, and pushes that pane's entry at the end of the
\* history, trimming from the front.
NextInOrder ==
    \A s \in Slots :
        ev'.op \in {"sweep", "resume"} /\ ev'.arg = s /\ ev'.note = "await" =>
            /\ sweeps[s].pc = "awaitAdd" =>
                  /\ sweeps'[s].cur = Head(sweeps[s].queue)
                  /\ sweeps'[s].queue = Tail(sweeps[s].queue)
            /\ sweeps[s].pc = "idle" =>
                  /\ sweeps'[s].cur = Head(ev'.ret.census.leavesToClose)
                  /\ sweeps'[s].queue = Tail(ev'.ret.census.leavesToClose)
            /\ calls'[s].entry.fileName = sweeps'[s].cur.leaf
            /\ history' = SliceLast(Append(history, calls'[s].entry),
                                    settings.maxHistoryEntries)

\* A pane leaves the workspace only in the step in which the addEntry call
\* made for it by a sweep returns to that sweep.
DestroyedAfterAppend ==
    \A l \in open \ open' :
        /\ ev'.op = "resume"
        /\ sweeps[ev'.arg].pc = "awaitAdd"
        /\ sweeps[ev'.arg].cur.leaf = l
        /\ calls[ev'.arg].kind = "addEntry"
        /\ calls[ev'.arg].entry.fileName = l
        /\ calls[ev'.arg].pc = "save"

PushesOnlyAtTheEnd ==
    history' # history =>
        \E s \in Slots :
            /\ calls'[s].kind = "addEntry" /\ calls'[s] # calls[s]
            /\ history' = SliceLast(Append(history, calls'[s].entry),
                                    settings.maxHistoryEntries)

\* C16: within one sweep the evictable panes are handled strictly in the
\* order of the enumeration, each pane's history append completing before its
\* destruction is requested (append p1, destroy p1, append p2, destroy p2);
\* across sweeps the history keeps the global insertion order.
C16_SweepOrder ==
    /\ [](ChosenInEnumerationOrder /\ InsertionOrder)
    /\ [][NextInOrder /\ DestroyedAfterAppend /\ PushesOnlyAtTheEnd]_vars

\* A sweep that chose two panes has ended: both entries are in the history in
\* the order of the enumeration and both panes are gone.
C16_Witness ==
    /\ ev.op = "resume" /\ ev.note = "done"
    /\ Len(ev.ret.closedTabs) = 2
    /\ ev.ret.closedTabs[1].fileName < ev.ret.closedTabs[2].fileName
    /\ Len(history) = 2
    /\ history[1].fileName = ev.ret.closedTabs[1].fileName
    /\ history[2].fileName = ev.ret.closedTabs[2].fileName
    /\ RootLeaves \subseteq gone

----------------------------------------------------------------------------
(* Properties of the schedule, checked under SpecSchedule *)

\* A sweep begun with settings.enabled false ends at once: it returns the
\* empty list and changes nothing.
DisabledSweepNoOp ==
    ~settings.enabled /\ ev'.op \in {"sweep", "sweepDisabled"} =>
        /\ ev'.op = "sweepDisabled"
        /\ ev'.ret = <<>>
        /\ UNCHANGED <<open, gone, pinned, focus, lastUse, failing, activity, history, sweeps,
                       calls, disk, diskSettings, mirror, folder>>

\* C17: when settings.enabled is false at the start of a sweep the sweep is a
\* no-op, from the timer and from manualCheck alike: no pane is destroyed, no
\* activity record is created or changed, the history is unchanged and the
\* list of evictions returned is empty.
C17_DisabledSweepNoOp == [][DisabledSweepNoOp]_vars

\* The interval fired with settings.enabled false (the toggle's handler had
\* not restarted the schedule yet) while a pane was idle beyond the timeout
\* and another had no activity record.
C17_Witness ==
    /\ ev.op = "sweepDisabled" /\ ev.note = "timer"
    /\ ~settings.enabled
    /\ \E l \in RootLeaves \cap open :
          /\ ~Falsy(activity[l])
          /\ now - activity[l] >= timer.timeoutMs
    /\ \E l \in RootLeaves \cap open : activity[l] = NoRecord

\* manualCheck run with settings.enabled false.
C17_ManualReached == ev.op = "sweepDisabled" /\ ev.note = "manual"

\* C18: once the settings tab has finished changing enabled or
\* inactiveTimeoutMinutes (no saveSettings() is pending), the schedule has been
\* restarted with the current values, so a sweep the interval starts classifies
\* with the current timeout.
C18_TimerUsesCurrentTimeout ==
    Classifying /\ Census.kind = "timer" /\ saves = <<>> =>
        Census.timeoutMs = settings.inactiveTimeoutMinutes * MsPerMinute

----------------------------------------------------------------------------
(* Shutdown, checked under SpecScheduleLive *)

\* While the manager is stopped its interval is cleared.
TimerCancelled == ~started => ~timer.live

\* No sweep begins while the manager is stopped.
NoSweepWhileStopped == ~started => ev'.op \notin {"sweep", "sweepDisabled"}

\* stop() does not touch a sweep in flight, nor the addEntry it awaits.
StopLeavesInFlight ==
    ev'.op = "stop" => sweeps' = sweeps /\ calls' = calls /\ history' = history

\* A sweep in flight while the manager is stopped ends.
InFlightFinishes ==
    \A s \in SoloSlots :
        (~started /\ sweeps[s].pc # "idle") ~> (sweeps[s].pc = "idle")

\* C19: after stop() the interval is cancelled and no timer-triggered sweep
\* begins until start() runs again; a sweep in flight when stop() is called is
\* left alone and runs to its end.
C19_StopCancelsTimer ==
    /\ []TimerCancelled
    /\ [][NoSweepWhileStopped /\ StopLeavesInFlight]_vars
    /\ InFlightFinishes

\* A sweep that was awaiting addEntry when the manager stopped has resumed,
\* destroyed its pane and ended, with the manager still stopped.
C19_Witness ==
    /\ ~started /\ ~timer.live
    /\ ev.op = "resume" /\ ev.note = "done"
    /\ ev.ret.closed # {}
    /\ \A s \in SoloSlots : sweeps[s].pc = "idle"

----------------------------------------------------------------------------
(* Notifications, checked under SpecSchedule *)

\* The step ends a manual trigger in slot s: manualCheck returned at once, or
\* its sweep ended in the step it began, or a sweep it had begun ended.
EndsManual(s) ==
    \/ ev'.op = "sweepDisabled" /\ ev'.note = "manual" /\ ev'.arg = s
    \/ /\ ev'.op = "sweep" /\ ev'.arg = s
       /\ ev'.ret.census.kind = "manual"
       /\ sweeps'[s].pc = "idle"
    \/ /\ sweeps[s].pc # "idle" /\ sweeps[s].kind = "manual"
       /\ sweeps'[s].pc = "idle"

\* The step shows a Notice that names distinct panes, all of them destroyed.
NoticeIsAccurate ==
    LET names == ev'.notice.closed
    IN /\ ev'.notice.shown
       /\ \A i \in 1..Len(names) : names[i].fileName \in gone'
       /\ \A i, j \in 1..Len(names) :
             names[i].fileName = names[j].fileName => i = j

\* C20: every manual trigger surfaces exactly one notification, "nothing to
\* close" or the count and names of the panes its sweep destroyed, and nothing
\* else surfaces one: a Notice appears at the end of each manual trigger, is
\* accurate, and appears at no other step (so never for the interval's sweeps).
C20_ManualNotifiesOnce ==
    [][/\ \A s \in Slots : EndsManual(s) => NoticeIsAccurate
       /\ ev'.notice.shown => \E s \in Slots : EndsManual(s)]_vars

----------------------------------------------------------------------------
(* Clearing the history, checked under SpecMirror *)

\* The button's clearHistory() leaves the in-memory history empty, so that
\* getHistory returns the empty sequence, and does not touch the mirror file.
ClearEmptiesMemoryOnly ==
    ev'.op = "clearHistory" =>
        /\ history' = <<>>
        /\ getHistory' = <<>>
        /\ mirror' = mirror
        /\ folder' = folder

\* Nor does the saveHistory() the button awaits next.
ClearSaveLeavesMirror ==
    calls[0].kind = "save" /\ calls'[0] # calls[0] => mirror' = mirror

\* C21: clearHistory empties the in-memory history (getHistory then returns
\* the empty sequence) and leaves the content of the mirror file unchanged.
C21_ClearLeavesMirror ==
    [][ClearEmptiesMemoryOnly /\ ClearSaveLeavesMirror]_vars

\* The history was cleared while the mirror file held the header and the
\* lines of two entries, which are still there.
C21_Witness ==
    /\ ev.op = "clearHistory"
    /\ history = <<>>
    /\ mirror.kind = "file"
    /\ Len(mirror.lines) = 3

----------------------------------------------------------------------------
(* The exported text, checked under SpecExport *)

\* Every entry of h has its line exactly once in the text, under its own day.
RendersEachOnce(text, h) ==
    /\ text.total = Len(h)
    /\ \A i \in 1..Len(h) :
          Cardinality({<<k, j>> \in (1..Len(text.groups)) \X (1..Len(h)) :
                          /\ j <= Len(text.groups[k].lines)
                          /\ text.groups[k].lines[j] = ExportLine(h[i])
                          /\ text.groups[k].date = toLocaleDateString(h[i].timestamp)}) = 1
    /\ \A k \in 1..Len(text.groups) : Len(text.groups[k].lines) <= Len(h)
    /\ \A k \in 1..Len(text.groups) :
          \A j \in 1..Len(text.groups[k].lines) :
              \E i \in 1..Len(h) : text.groups[k].lines[j] = ExportLine(h[i])

\* The day blocks come most recent day first.
RecentDateFirst(text) ==
    \A k, m \in 1..Len(text.groups) :
        k < m => text.groups[k].date > text.groups[m].date

\* Within a day the lines run from the earliest time of day to the latest.
OldestFirstWithinDate(text) ==
    \A k \in 1..Len(text.groups) :
        \A i, j \in 1..Len(text.groups[k].lines) :
            i < j => text.groups[k].lines[i].time <= text.groups[k].lines[j].time

\* Within a day the lines run in the reverse of the order in which h holds
\* their entries.
PositionIn(h, line) == CHOOSE i \in 1..Len(h) : h[i].fileName = line.fileName

ReverseStoredWithinDate(text, h) ==
    \A k \in 1..Len(text.groups) :
        \A i, j \in 1..Len(text.groups[k].lines) :
            i < j => PositionIn(h, text.groups[k].lines[i])
                       > PositionIn(h, text.groups[k].lines[j])

\* C22 as stated: exportHistory renders every stored entry exactly once,
\* grouped by calendar date with the most recent date first, and within a date
\* in chronological (oldest-first) order of time of day.
C22_ExportChronological ==
    [][ev'.op = "exportHistory" =>
          /\ RendersEachOnce(ev'.ret, history)
          /\ RecentDateFirst(ev'.ret)
          /\ OldestFirstWithinDate(ev'.ret)]_vars

\* C22 as amended: exportHistory renders every stored entry exactly once,
\* grouped by calendar date with the most recent date first, and within a date
\* in the reverse of the stored order, the most recently appended first.
C22_ExportNewestFirst ==
    [][ev'.op = "exportHistory" =>
          /\ RendersEachOnce(ev'.ret, history)
          /\ RecentDateFirst(ev'.ret)
          /\ ReverseStoredWithinDate(ev'.ret, history)]_vars

\* An export of three entries: one of today, and two of yesterday a minute
\* apart, the later of them first.
C22_Witness ==
    /\ ev.op = "exportHistory"
    /\ ev.ret.total = 3
    /\ Len(ev.ret.groups) = 2
    /\ Len(ev.ret.groups[2].lines) = 2
    /\ ev.ret.groups[2].lines[1].time > ev.ret.groups[2].lines[2].time

\* C23: exportHistory is a stable read-only rendering: it leaves the stored
\* entries and their order as they were, so that getHistory returns what it
\* returned before, and a second call with no append or clear in between
\* returns the same text as the first.
C23_ExportReadOnly ==
    [][ev'.op = "exportHistory" =>
          /\ history' = history
          /\ getHistory' = getHistory
          /\ (ev.op = "exportHistory" => ev'.ret = ev.ret)]_vars

----------------------------------------------------------------------------
(* The numeric settings fields, checked under SpecSettings *)

\* The text is a number: digits only, after an optional minus sign.
IsNumeric(text) ==
    LET body == IF text # <<>> /\ Head(text) = "-" THEN Tail(text) ELSE text
    IN body # <<>> /\ DigitRun(body) = body

NonNumericOrNonPositive(text) == ~IsNumeric(text) \/ parseInt(text).n <= 0

NumericSettingsPositive ==
    /\ settings.inactiveTimeoutMinutes \in Nat \ {0}
    /\ settings.checkIntervalSeconds \in Nat \ {0}
    /\ settings.maxHistoryEntries \in Nat \ {0}

\* C24: a non-numeric or non-positive value entered for inactiveTimeoutMinutes,
\* checkIntervalSeconds or maxHistoryEntries is rejected: the setting keeps its
\* value, nothing is saved and the schedule is not restarted; and the three
\* settings are positive integers in every reachable state.
C24_BadNumbersRejected ==
    /\ []NumericSettingsPositive
    /\ [][ev'.op = "typed" /\ NonNumericOrNonPositive(ev'.ret[2]) =>
             /\ ev'.note = "rejected"
             /\ settings' = settings
             /\ saves' = saves
             /\ timer' = timer]_vars

----------------------------------------------------------------------------
(* Idle time as the user sees it, checked under Spec *)

\* The sweep beginning in this step chooses only leaves that have been out of
\* use for its timeout: counted from the last touch the plugin recorded and,
\* for a leaf that has lost the focus, from the instant it lost it.
ChosenOnlyWhenIdle ==
    ev'.op = "sweep" =>
        LET cen == ev'.ret.census
        IN \A l \in ItemLeaves(cen.leavesToClose) :
              /\ cen.at - cen.activityAt[l] >= cen.timeoutMs
              /\ lastUse[l] # NoRecord => cen.at - lastUse[l] >= cen.timeoutMs

\* C25: an unpinned pane is closed only after it has been inactive for the
\* configured timeout: no sweep chooses a pane for destruction while less than
\* the timeout has elapsed since the pane was last in use, where being the
\* focused pane counts as use up to the instant it loses the focus.
C25_ClosedOnlyWhenIdle == [][ChosenOnlyWhenIdle]_vars

----------------------------------------------------------------------------
(* The precedence of the classification, checked under Spec *)

\* What the sweep did with each leaf it enumerated, read off its census and
\* the activity map it left: spared and record untouched (protected, active),
\* spared and record set to the sweep's instant (untracked), or chosen.
Spared(l) == l \notin Chosen /\ activity[l] = Census.activityAt[l]
Seeded(l) == l \notin Chosen /\ activity[l] = Census.at
Evicted(l) == l \in Chosen /\ activity[l] = Census.activityAt[l]

ByPrecedence(l) ==
    IF l \in Census.pinnedAt THEN Spared(l)
    ELSE IF l = Census.focusAt THEN Spared(l)
    ELSE IF Census.activityAt[l] = NoRecord THEN Seeded(l)
    ELSE IF Census.at - Census.activityAt[l] < Census.timeoutMs THEN Spared(l)
    ELSE Evicted(l)

\* C26: the sweep classifies each enumerated pane by the precedence pinned,
\* focused, no record (seeded to now), active, evictable; a pinned or focused
\* pane with no activity record is protected and its record is left absent.
C26_ClassificationPrecedence ==
    Classifying =>
        /\ Chosen \subseteq Enumerated
        /\ \A l \in Enumerated : ByPrecedence(l)

\* A sweep that met a pinned pane with no activity record and left it without
\* one, next to a pane it chose.
C26_Witness ==
    /\ Classifying
    /\ Chosen # {}
    /\ \E l \in Enumerated :
          /\ l \in Census.pinnedAt
          /\ Census.activityAt[l] = NoRecord
          /\ activity[l] = NoRecord

----------------------------------------------------------------------------
(* Seeding of activity records, checked under Spec *)

\* start() leaves every main-area leaf then open with a record, a new one
\* being of that instant.
StartSeedsOpenLeaves ==
    ev'.op = "start" =>
        \A l \in open \cap RootLeaves :
            /\ activity'[l] # NoRecord
            /\ activity[l] = NoRecord => activity'[l] = now

\* A record never comes into being with an instant other than the present.
SeededToNow ==
    \A l \in Leaves :
        activity[l] = NoRecord /\ activity'[l] # NoRecord => activity'[l] = now'

\* Once a sweep has classified, every leaf it enumerated has a record.
EnumeratedHaveRecords ==
    Classifying => \A l \in Enumerated : activity[l] # NoRecord

\* Once a sweep has classified, every leaf it enumerated that was neither
\* pinned nor the active leaf has a record, a new one being of the sweep's
\* instant.
UnprotectedHaveRecords ==
    Classifying =>
        \A l \in Enumerated :
            l \notin Census.pinnedAt /\ l # Census.focusAt =>
                /\ activity[l] # NoRecord
                /\ Census.activityAt[l] = NoRecord => activity[l] = Census.at

\* C27 as stated: every managed pane gets a record of the current instant the
\* first time it is observed, at start() or in the first sweep that enumerates
\* it: after a sweep every pane it enumerated has a record, and no record is
\* seeded to an instant before the pane's discovery.
C27_SeededWhenFirstObserved ==
    /\ []EnumeratedHaveRecords
    /\ [][StartSeedsOpenLeaves /\ SeededToNow]_vars

\* C27 as amended: the same, for the enumerated panes that are neither pinned
\* nor focused; a pinned pane without a record is passed over by the sweep.
C27_SeededUnlessProtected ==
    /\ []UnprotectedHaveRecords
    /\ [][StartSeedsOpenLeaves /\ SeededToNow]_vars

\* After the clock advanced, a sweep gave a pane its first record, of the
\* sweep's instant, and passed over a pinned pane.
C27_Witness ==
    /\ Classifying
    /\ Census.at > StartTime
    /\ Census.pinnedAt \cap Enumerated # {}
    /\ \E l \in Enumerated :
          /\ l \notin Census.pinnedAt /\ l # Census.focusAt
          /\ Census.activityAt[l] = NoRecord
          /\ activity[l] = Census.at

----------------------------------------------------------------------------
(* Records are kept for main-area leaves only, checked under Spec *)

\* No side-panel leaf has an activity record.
SideLeavesUnrecorded == \A l \in SideLeaves : activity[l] = NoRecord

\* A step that moves the focus to a side-panel leaf changes no record.
SideFocusWritesNothing ==
    focus' # focus /\ focus' \in SideLeaves => activity' = activity

\* C28: activity records are written only for managed panes: whatever start,
\* focus changes, file openings and sweeps have happened, no side-panel leaf
\* has a record, and a focus event on a side-panel leaf changes no record.
C28_RecordsOnlyForManaged ==
    /\ []SideLeavesUnrecorded
    /\ [][SideFocusWritesNothing]_vars

\* A side-panel leaf took the focus from a main-area leaf after start(), and
\* a sweep has run while it had the focus.
C28_Witness ==
    /\ started
    /\ focus \in SideLeaves
    /\ \E l \in RootLeaves : lastUse[l] # NoRecord
    /\ Classifying
    /\ Census.focusAt \in SideLeaves

----------------------------------------------------------------------------
(* A failing host query during a sweep, checked under SpecQueries *)

\* A sweep has run its enumeration, to its end or to a throw.
Swept == ev.op \in {"sweep", "sweepAbort"}

\* The leaves the sweep that just ran is closing.
Closing == IF ev.op = "sweep" THEN Chosen ELSE {}

\* What the classification makes of leaf l in the census of the last sweep.
Outcome(l) ==
    IF l \in Census.pinnedAt THEN "pinned"
    ELSE IF l = Census.focusAt THEN "focused"
    ELSE IF Falsy(Census.activityAt[l]) THEN "untracked"
    ELSE IF Census.at - Census.activityAt[l] >= Census.timeoutMs THEN "evictable"
    ELSE "active"

\* C29: when a host query fails for one leaf, a sweep leaves that leaf alone
\* (its record as it was, the leaf not closed) and deals with every other
\* leaf it enumerates as the classification says: an untracked one is seeded
\* and an evictable one is closed by that sweep.
C29_QueryFailureIsolated ==
    Swept =>
        \A l \in Enumerated :
            IF failing[l] # "none"
            THEN l \notin Closing /\ activity[l] = Census.activityAt[l]
            ELSE /\ Outcome(l) = "untracked" => activity[l] = Census.at
                 /\ Outcome(l) = "evictable" => l \in Closing

\* A sweep ended at a throw, with a leaf it had not reached due for closing.
C29_AbortReached ==
    /\ ev.op = "sweepAbort"
    /\ \E l \in Enumerated : failing[l] = "none" /\ Outcome(l) = "evictable"

----------------------------------------------------------------------------
(* A leaf closed by the user during the sweep's await, checked under Spec *)

\* The sweep of slot s resumes from the addEntry it awaited for a leaf that
\* is no longer in the workspace.
StaleResume(s) ==
    /\ sweeps[s].pc = "awaitAdd"
    /\ sweeps[s].cur.leaf \notin open
    /\ ev'.op = "resume" /\ ev'.arg = s

\* Such a resumption neither counts the leaf in closedTabs nor leaves an
\* entry for it in the history, and goes on with the rest of leavesToClose.
ResumeSkipsStale ==
    \A s \in Slots :
        StaleResume(s) =>
            LET l == sweeps[s].cur.leaf
                counted == ev'.ret.closedTabs
            IN /\ \A i \in 1..Len(counted) : counted[i].fileName # l
               /\ \A i \in 1..Len(history') : history'[i].fileName # l
               /\ sweeps[s].queue # <<>> => ev'.note \in {"await", "dropped"}

\* C30: when the user destroys a leaf classified evictable while the sweep
\* awaits the history write for it, the sweep takes the stale handle for a
\* no-op: no error, the leaf neither counted nor recorded as closed by the
\* sweep, and the remaining leaves are dealt with.
C30_StaleHandleNoOp == [][ResumeSkipsStale]_vars

----------------------------------------------------------------------------
(* The event subscriptions, checked under SpecLifecycle *)

\* One handler per event is live while the manager is started, none after.
OneHandlerWhileStarted == handlers = IF started THEN 1 ELSE 0

\* A change of focus after stop() changes no activity record.
NoStampAfterStop == ~started /\ focus' # focus => activity' = activity

\* C31: the focus-changed and content-opened subscriptions are owned by the
\* manager: after any start() and updateSettings() calls exactly one handler
\* per event is live and after stop() none, so that a focus event delivered
\* after stop() changes no activity record.
C31_OneSubscriptionPerEvent ==
    /\ []OneHandlerWhileStarted
    /\ [][NoStampAfterStop]_vars

----------------------------------------------------------------------------
(* Mirror lines that are lost, checked under SpecMirror *)

\* addEntry of slot c returns from writeToFile in this step.
MirrorStepEnds(c) ==
    /\ calls[c].kind = "addEntry"
    /\ calls[c].pc \in {"append", "fallback", "mkfolder", "create"}
    /\ calls'[c].pc = "idle"
    /\ ev'.op \in {"return", "resume"}

\* An addEntry that ends its mirror step without having logged an error has
\* its line in the mirror file.
SilentMeansWritten ==
    \A c \in CallIds :
        MirrorStepEnds(c) /\ ev'.note # "logged" =>
            /\ mirror'.kind = "file"
            /\ LogLine(calls[c].entry) \in Range(mirror'.lines)

\* C32: every history line that fails to reach the mirror file comes with a
\* logged error: an addEntry that runs with logHistory and logToFile on and
\* finishes without logging a mirror error has left its line in the file,
\* also when the path is taken by something that is not a file.
C32_LostLinesAreLogged == [][SilentMeansWritten]_vars

----------------------------------------------------------------------------
(* A lowered capacity, checked under SpecHistory *)

\* The history holds more entries than the capacity allows.
OverCapacity == Len(history) > settings.maxHistoryEntries

\* A change of maxHistoryEntries leaves the history as it is.
CapacityChangeKeepsEntries ==
    settings'.maxHistoryEntries # settings.maxHistoryEntries => history' = history

\* Entries leave the history only in a mutating call: the push of addEntry
\* with logHistory on, which keeps the tail of the stored array with the new
\* entry, or the clear of the history view.
DroppedOnlyByMutation ==
    ~(Range(history) \subseteq Range(history')) =>
        \/ ev'.op = "clearHistory"
        \/ /\ ev'.op = "addEntry"
           /\ settings.logHistory
           /\ \E e \in Range(history') :
                 history' = SliceLast(Append(history, e), settings.maxHistoryEntries)

\* getHistory and exportHistory give every entry of the history, also when
\* there are more of them than the capacity.
ReadsGiveAll ==
    /\ ev'.op = "getHistory" =>
          Len(ev'.ret) = Len(history) /\ Range(ev'.ret) = Range(history)
    /\ ev'.op = "exportHistory" =>
          /\ ev'.ret.total = Len(history)
          /\ Range(history') = Range(history)

\* C33: lowering maxHistoryEntries below the length of the history changes no
\* stored entry by itself; the excess entries at the old end of the array are
\* dropped only by the next mutating history call, and getHistory and
\* exportHistory in between still return all entries.
C33_CapacityTrimsLazily ==
    [][CapacityChangeKeepsEntries /\ DroppedOnlyByMutation /\ ReadsGiveAll]_vars

\* Two entries were appended, the capacity was then lowered to one, and
\* getHistory returned them both.
C33_Witness ==
    /\ ev.op = "getHistory"
    /\ history = <<NthEntry(1), NthEntry(2)>>
    /\ settings.maxHistoryEntries = 1
    /\ ev.ret = <<NthEntry(2), NthEntry(1)>>

----------------------------------------------------------------------------
(* The state at the instant of leaf.detach(), checked under Spec *)

\* The leaves a step of a sweep detaches that were still in the workspace.
DetachedNow ==
    IF ev'.op \in {"sweep", "resume"} THEN ev'.ret.closed \cap open ELSE {}

\* Leaf l is evictable as the workspace and the activity map stand.
EvictableNow(l) ==
    /\ l \notin pinned
    /\ l # getActiveRootLeaf
    /\ ~Falsy(activity[l])
    /\ now - activity[l] >= settings.inactiveTimeoutMinutes * MsPerMinute

\* C34: at the instant a sweep calls detach() of a leaf, the leaf is still
\* evictable as things stand: not pinned, not the active leaf, its record at
\* least one timeout old, also when it was pinned, focused or touched while
\* the sweep awaited a history write.
C34_EvictableAtDetach == [][\A l \in DetachedNow : EvictableNow(l)]_vars

----------------------------------------------------------------------------
(* The periodic timer, checked under SpecSchedule *)

\* No interval runs besides the one this.checkInterval refers to.
AtMostOneTimer == ~timer.stale

\* updateSettings() runs in this step.
Restarts == saves # <<>> /\ Head(saves).restart /\ saves' = Tail(saves)

\* A start leaves a timer live exactly when settings.enabled is true at that
\* moment, a stop leaves none, and nothing else makes or clears a timer.
TimerFollowsStart ==
    /\ Restarts => timer'.live = settings.enabled
    /\ ev'.op = "stop" => ~timer'.live
    /\ ~Restarts /\ ev'.op # "stop" => timer'.live = timer.live

\* C35: after any start(), updateSettings() and stop(), at most one periodic
\* timer is live, and one is live exactly when settings.enabled was true at
\* the most recent start() with no stop() since; switching "enabled" off in
\* the settings tab leaves no live timer.
C35_OneTimerWhenEnabled ==
    /\ []AtMostOneTimer
    /\ [][TimerFollowsStart]_vars

\* "enabled" was switched off and on again in the settings tab: the manager
\* has restarted twice and one timer is live.
C35_Witness ==
    /\ started /\ settings.enabled /\ saves = <<>>
    /\ handlers = MaxHandlers
    /\ timer.live /\ ~timer.stale

----------------------------------------------------------------------------
(* Records across a restart, checked under SpecLifecycle *)

\* updateSettings() leaves every existing record as it is, and gives the open
\* main-area leaves without one a record of that instant.
RestartKeepsRecords ==
    Restarts =>
        \A l \in Leaves :
            IF activity[l] # NoRecord THEN activity'[l] = activity[l]
            ELSE activity'[l] = IF l \in open \cap RootLeaves THEN now ELSE NoRecord

\* C36: restarting the schedule (updateSettings: stop, then start) never
\* changes the activity record of a pane that has one: start() seeds only
\* panes without a record, so a settings change gives no tracked pane a fresh
\* grace period.
C36_RestartKeepsRecords == [][RestartKeepsRecords]_vars

\* After a restart later than the start, one pane still has its record of the
\* start and another, opened since and never focused, has a later one.
C36_Witness ==
    /\ handlers > 1 /\ saves = <<>>
    /\ now > StartTime
    /\ \E l, k \in open \cap RootLeaves :
          /\ activity[l] = StartTime
          /\ activity[k] > StartTime
          /\ k # focus /\ lastUse[k] = NoRecord

----------------------------------------------------------------------------
(* The status list against the sweep, checked under SpecStatus *)

\* The leaves the status list flags "will close".
FlaggedToClose == {ev.ret[i].fileName : i \in {j \in 1..Len(ev.ret) : ev.ret[j].willClose}}

\* The leaves a sweep begun by the interval at this instant would put in
\* leavesToClose: none when no interval is live or the plugin is disabled.
TimerWouldEvict ==
    IF timer.live /\ settings.enabled
    THEN {l \in Range(iterateRootLeaves) :
             Classify(l, getActiveRootLeaf, now, timer.timeoutMs) = "evictable"}
    ELSE {}

\* C37: the status list agrees with the sweep: in every state showStatus
\* flags a main-area leaf "will close" exactly when a sweep begun by the
\* interval at the same instant would evict it.
C37_StatusAgreesWithSweep ==
    ev.op = "showStatus" => FlaggedToClose = TimerWouldEvict

\* The status list flags a leaf while the interval holds a longer timeout
\* than the settings do.
C37_StaleTimeoutReached ==
    /\ ev.op = "showStatus"
    /\ FlaggedToClose # {}
    /\ timer.live /\ settings.enabled
    /\ TimerWouldEvict = {}

----------------------------------------------------------------------------
(* C38: a settings save and the persisted history *)

\* saveSettings() resolves
SettingsSaveStep == saves # <<>> /\ saves' = Tail(saves)

\* C38: saving the settings leaves the closedTabsHistory of the data file as
\* it was, so that a reload after a settings change restores the history the
\* last completed addEntry wrote.
C38_SettingsSaveKeepsHistory == [][SettingsSaveStep => disk' = disk]_vars

\* An entry was logged and written, nothing is in flight, and the data file
\* no longer holds it.
C38_WrittenEntryLost ==
    /\ saves = <<>>
    /\ \A c \in CallIds : calls[c].pc = "idle"
    /\ ev.op = "ui"
    /\ history # <<>>
    /\ appended = history
    /\ disk # Stored(history)

----------------------------------------------------------------------------
(* C39: the confirmed clear and the data file *)

\* The callback of the confirm modal has run to its end: saveHistory()
\* returned at once, or after its saveData.
ClearCompleted ==
    \/ ev.op = "clearHistory" /\ calls[0].pc = "idle"
    \/ ev.op = "saveReturn"

\* C39: once the confirmed clear has completed, the closedTabsHistory of the
\* data file holds none of the entries the clear removed (it is empty, but
\* for entries logged after the clear), whatever the value of logHistory, so
\* that a later loadHistory does not bring them back.
C39_ClearIsDurable ==
    ClearCompleted => Range(loadHistory(disk)) \subseteq Range(appended)

\* The clear completed with logHistory off and the data file still holds the
\* entries of the earlier session.
C39_ClearedLogStillStored ==
    /\ ClearCompleted
    /\ ~logsHistory
    /\ history = <<>>
    /\ loadHistory(disk) # <<>>

----------------------------------------------------------------------------
(* C40: a settings save interleaved with a history save *)

\* The HistoryManager driven directly and the settings tab, with the settings
\* keys of the data file followed: the plugin is started and disabled in an
\* empty workspace, the data file holds what the settings were loaded from.
InitInterleave ==
    /\ open = {} /\ gone = {} /\ pinned = {} /\ focus = NoLeaf
    /\ lastUse = [l \in Leaves |-> NoRecord]
    /\ failing = NoneFailing
    /\ now = StartTime
    /\ settings \in {SettingsOf(FALSE, 1, TRUE, FALSE, m, st) :
                        m \in 1..MaxCapacity, st \in StoredChoices}
    /\ started = TRUE
    /\ handlers = 1
    /\ saves = <<>>
    /\ activity = [l \in Leaves |-> NoRecord]
    /\ timer = NoTimer
    /\ sweeps = [s \in Slots |-> IdleSweep]
    /\ hmBuild \in {"current", "legacy"}
    /\ history = loadHistory(settings.closedTabsHistory)
    /\ calls = [c \in CallIds |-> IdleCall]
    /\ disk = settings.closedTabsHistory
    /\ diskSettings = Fields(settings)
    /\ mirror = NoFile
    /\ folder = TRUE
    /\ appended = history
    /\ capStable = (Len(history) <= settings.maxHistoryEntries)
    /\ nAppends = 0
    /\ ev = Event("init", 0)

NextInterleave ==
    \/ \E c \in Slots : AddEntry(c)
    \/ \E c \in CallIds : LoadDataDone(c)
    \/ \E c \in CallIds : SaveDataDone(c)
    \/ \E v \in BOOLEAN : SetEnabled(v)
    \/ \E v \in 1..MaxCapacity : SetMaxHistoryEntries(v)
    \/ SaveSettingsDone

SpecInterleave == InitInterleave /\ [][NextInterleave]_vars

\* No saveSettings() and no saveHistory() is in flight.
SavesCompleted ==
    /\ saves = <<>>
    /\ \A c \in CallIds : calls[c].pc = "idle"

\* C40: once every save in flight has completed, the settings keys of the data
\* file equal plugin.settings and its closedTabsHistory equals this.history,
\* however the settings saves and the history saves were interleaved.
C40_NoLostUpdate ==
    SavesCompleted =>
        /\ diskSettings = Fields(settings)
        /\ loadHistory(disk) = history

\* A history save read the data file before a settings save and wrote after
\* it: the history of the file is current, its settings keys are the old ones.
C40_SettingsWriteLost ==
    /\ SavesCompleted
    /\ loadHistory(disk) = history
    /\ diskSettings # Fields(settings)

====
